---- MODULE Spec2Model ----
(***************************************************************************)
(* Model of hash-compare-dicoms: the format classifier of lib/fileHelper,  *)
(* the LMDB indexer (scanAndIndexFiles, walk, processDicom), the           *)
(* spool-based duplicate finder (saveAllFilePaths, processFilePaths, main, *)
(* cleanup and the process handlers), findDuplicatesInFolder.js with its   *)
(* asyncPool, run.js (compareFolders) and buildHashDatabase.js.            *)
(*                                                                         *)
(* JavaScript strings are sequences of one-character strings, so that      *)
(* startsWith, length, extname and line splitting are computed as the code *)
(* computes them.                                                          *)
(***************************************************************************)
EXTENDS Integers, Sequences, FiniteSets, TLC

VARIABLES
    \* ---- buildHashDatabase.js (run, buildHashDatabase, processOrthancInstances) ----
    isTesting,    \* -t: print the results, write nothing to the database
    obInstances,  \* what GET /instances answers: [data |-> the ids], NULL when it fails
    obpc,         \* "start", "fetch" (awaiting one file), "store", "exited"
    obI,          \* i of buildHashDatabase: the batch in hand, from 0
    obPos,        \* the place in the batch of the instance in hand, from 1
    results,      \* results of processOrthancInstances
    execErrors,   \* execErrors
    obRequests,   \* the ids whose file was requested from Orthanc, in order
    obFetchFailed,\* the ids whose file request failed
    obStored,     \* the documents of the database, in the order written
    obLog,        \* what run wrote to the console after buildHashDatabase
    totalImagesHashed, \* totalImagesHashed of run
    \* ---- findDuplicatesInFolder.js (getDicomFilesRecursively, findDuplicates) ----
    fdFolder,     \* folder: the resolved folder argument
    fdCommunicate,      \* -c
    fdCommunicateHash,  \* -ch
    fdOutputFile,       \* -f was given
    fdRun,        \* 1 in the first run over the tree, 2 in the second
    fdpc,         \* "start", "discover" (awaiting the file list), "reported"
    fdCall,       \* each directory's getDicomFilesRecursively call
    fdItem,       \* each entry's callback of items.map
    fdList,       \* each call's dicomFiles array
    fdOutput,     \* output: the duplicate sets of the run
    fdStdout,     \* what the run wrote to standard output
    fdFirst,      \* the duplicate sets the first run reported, as sets of paths
    \* ---- run.js (getDicomFilesRecursively, getDicomHashes, compareFolders) ----
    cmFolders,    \* << folder1, folder2 >>, resolved
    cmpc,         \* "start", "scan1", "scan2" (awaiting a file list), "reported"
    cmCall,       \* per scan, each directory's getDicomFilesRecursively call
    cmItem,       \* per scan, each entry's callback of items.map
    cmList,       \* per scan, each call's dicomFiles array
    cmHashes,     \* << hashes1, hashes2 >>: entries [hash, files] in key order
    cmStdout,     \* the lines written to standard output
    cmStderr,     \* the lines written to standard error
    \* ---- asyncPool(poolLimit, array, iteratorFn) ----
    poolLimit,    \* poolLimit
    array,        \* array: the items
    appc,         \* "loop" (the loop runs), "race" (awaiting Promise.race),
                  \* "all" (Promise.all(ret) is awaited), "resolved", "rejected"
    nextItem,     \* the position of the item the loop takes next
    ret,          \* ret: the promises p, by position
    executing,    \* executing: the promises e, by position
    call,         \* each p: "scheduled", "running" (iteratorFn was called),
                  \* "fulfilled" or "rejected"
    called,       \* how often iteratorFn was called for each position
    race,         \* the Promise.race awaited: "pending", "fulfilled", "rejected"
    poolResult,   \* what the promise of asyncPool resolved to, NULL before
    \* ---- removeNestedFolders applied to an argument list ----
    rnArgs,       \* the folder arguments, as typed
    rnFolders,    \* what removeNestedFolders returned for them
    rnpc,         \* "input" before the call, "done" after it
    \* ---- classifier (lib/fileHelper.js extractRelevantData) ----
    dataSet,      \* the parsed dataset handed to extractRelevantData
    cpc,          \* "input" before the call, "done" after it
    digest,       \* what extractRelevantData returned
    \* ---- LMDB indexer (scanAndIndexFiles and its callees) ----
    ixArgs,       \* the folder arguments of the command line
    ixDeepMode,   \* the -d flag
    ixpc,         \* where the main flow stands: "start", "next" (running the
                  \* loop), "readdir", "race", "drain" (awaiting) or "done"
    ixFolders,    \* folders, after removeNestedFolders
    ixFolderIdx,  \* how many folders the outer loop has taken
    readTarget,   \* the directory whose readdir is awaited
    walkStack,    \* the suspended walk() generators: [dir, rest of entries]
    pool,         \* pool: the promises (task numbers) it holds, oldest first
    started,      \* the file path of each task, in the order they were started
    tstate,       \* each task: "running", "putting" (awaiting db.put) or "settled"
    dicomCount,   \* dicomCount
    errors,       \* errors: the filePath of each entry
    db,           \* the keys stored in the database
    dbClosed,     \* db.close() was called
    reported,     \* the totals printed at the end, NULL before
    \* ---- spool-based duplicate finder (main over lib/fileHelper.js) ----
    fArgs,           \* the folder arguments of the command line
    deepMode,        \* -d
    communicate,     \* -c
    communicateHash, \* -ch
    outputFile,      \* TRUE when -f <outputfile> was given
    fpc,             \* where the main flow stands: "start", "next" (running),
                     \* "readdir", "finish", "count", "process" (awaiting),
                     \* "finished" (main returned) or "exited"
    folders,         \* folders, after removeNestedFolders
    folderIdx,       \* how many folders the loop of main has taken
    fReadTarget,     \* the directory whose readdir is awaited
    fStack,          \* the suspended writeFilePathsToTemp calls: [dir, rest]
    stream,          \* the write stream: "none", "opening", "open" or "closed"
    wbuf,            \* what was written to the stream and is not yet in the file
    tempFile,        \* the text of the temp file, NULL while it does not exist
    counter,         \* counter: { count, dicoms }
    total,           \* total of processFilePaths
    index,           \* index of processFilePaths
    lines,           \* the lines the second pass has still to read
    hashes,          \* hashes: the Map's entries [hash, files] in insertion order
    output,          \* output: the duplicate groups
    totalDuplicates, \* totalDuplicates
    stdout,          \* the lines written to standard output
    stderr,          \* the lines written to standard error
    exitCode         \* the exit code, NULL while the process runs

classVars == <<dataSet, cpc, digest>>

indexVars ==
    <<ixArgs, ixDeepMode, ixpc, ixFolders, ixFolderIdx, readTarget, walkStack,
      pool, started, tstate, dicomCount, errors, db, dbClosed, reported>>

finderVars ==
    <<fArgs, deepMode, communicate, communicateHash, outputFile, fpc, folders,
      folderIdx, fReadTarget, fStack, stream, wbuf, tempFile, counter, total, index,
      lines, hashes, output, totalDuplicates, stdout, stderr, exitCode>>

rootVars == <<rnArgs, rnFolders, rnpc>>

folderVars ==
    <<fdFolder, fdCommunicate, fdCommunicateHash, fdOutputFile, fdRun, fdpc, fdCall,
      fdItem, fdList, fdOutput, fdStdout, fdFirst>>

compareVars ==
    <<cmFolders, cmpc, cmCall, cmItem, cmList, cmHashes, cmStdout, cmStderr>>

poolVars ==
    <<poolLimit, array, appc, nextItem, ret, executing, call, called, race, poolResult>>

orthancVars ==
    <<isTesting, obInstances, obpc, obI, obPos, results, execErrors, obRequests,
      obFetchFailed, obStored, obLog, totalImagesHashed>>

vars ==
    <<classVars, indexVars, finderVars, rootVars, folderVars, compareVars, poolVars, orthancVars>>

(***************************************************************************)
(* Strings                                                                 *)
(***************************************************************************)

\* String.prototype.startsWith
StartsWith(s, prefix) ==
    /\ Len(prefix) <= Len(s)
    /\ SubSeq(s, 1, Len(prefix)) = prefix

\* the common stem "1.2.840.10008.5.1.4.1.1." of the storage SOP classes
UidStem ==
    << "1", ".", "2", ".", "8", "4", "0", ".", "1", "0", "0", "0", "8", ".",
       "5", ".", "1", ".", "4", ".", "1", ".", "1", "." >>

\* '1.2.840.10008.5.1.4.1.1.104.1'
PdfUid == UidStem \o << "1", "0", "4", ".", "1" >>
\* '1.2.840.10008.5.1.4.1.1.88.'
SrPrefix == UidStem \o << "8", "8", "." >>
\* '1.2.840.10008.5.1.4.1.1.481.3'
RtStructUid == UidStem \o << "4", "8", "1", ".", "3" >>
\* '1.2.840.10008.5.1.4.1.1.9.1.'
WaveformPrefix == UidStem \o << "9", ".", "1", "." >>

(***************************************************************************)
(* Paths (Node's path module on POSIX)                                     *)
(***************************************************************************)

\* path.sep
Sep == "/"

\* the line feed character
LF == "\n"

\* String.prototype.toLowerCase, per character
LowerChar(c) ==
    CASE c = "D" -> "d"
      [] c = "C" -> "c"
      [] c = "M" -> "m"
      [] OTHER -> c

ToLowerCase(s) == [i \in 1 .. Len(s) |-> LowerChar(s[i])]

\* the position of the last occurrence of character c in s, 0 when there is none
LastIndexOf(s, c) ==
    LET hits == { i \in 1 .. Len(s) : s[i] = c } IN
    IF hits = {} THEN 0 ELSE CHOOSE i \in hits : \A j \in hits : j <= i

\* path.basename of a resolved path
Basename(p) == SubSeq(p, LastIndexOf(p, Sep) + 1, Len(p))

\* path.extname: from the last dot of the basename, '' when there is no dot or
\* the only dot is the first character
Extname(p) ==
    LET base == Basename(p)
        dot  == LastIndexOf(base, ".")
    IN  IF dot <= 1 THEN << >> ELSE SubSeq(base, dot, Len(base))

\* path.join(dir, name) for a resolved dir and an entry name
PathJoin(dir, name) ==
    IF dir = << Sep >> THEN dir \o name ELSE dir \o << Sep >> \o name

\* path.resolve of an absolute argument: a trailing separator is dropped
PathResolve(p) ==
    IF Len(p) > 1 /\ p[Len(p)] = Sep THEN SubSeq(p, 1, Len(p) - 1) ELSE p

\* insert x into a list sorted by length, after the elements of equal length
\* (Array.prototype.sort is stable)
RECURSIVE InsertByLength(_, _)
InsertByLength(sorted, x) ==
    IF sorted = << >> THEN << x >>
    ELSE IF Len(x) < Len(Head(sorted)) THEN << x >> \o sorted
    ELSE << Head(sorted) >> \o InsertByLength(Tail(sorted), x)

\* folders.sort((a, b) => a.length - b.length)
RECURSIVE SortByLength(_)
SortByLength(list) ==
    IF list = << >> THEN << >>
    ELSE InsertByLength(SortByLength(SubSeq(list, 1, Len(list) - 1)), list[Len(list)])

\* a loop that drops a folder when a kept folder is a prefix of its string
RECURSIVE KeepOutermostRawPrefix(_, _)
KeepOutermostRawPrefix(sorted, result) ==
    IF sorted = << >> THEN result
    ELSE LET folder == Head(sorted)
             isSubfolder ==
                 \E i \in 1 .. Len(result) : StartsWith(folder, result[i])
         IN  KeepOutermostRawPrefix(Tail(sorted),
                                    IF isSubfolder THEN result ELSE Append(result, folder))

\* the loop of removeNestedFolders over the sorted list
RECURSIVE KeepOutermost(_, _)
KeepOutermost(sorted, result) ==
    IF sorted = << >> THEN result
    ELSE LET folder == Head(sorted)
             isSubfolder ==
                 \E i \in 1 .. Len(result) : StartsWith(folder, result[i] \o << Sep >>)
         IN  KeepOutermost(Tail(sorted),
                           IF isSubfolder THEN result ELSE Append(result, folder))

\* removeNestedFolders (lib/fileHelper.js and the indexer hold the same text)
removeNestedFolders(list) ==
    KeepOutermost(SortByLength([i \in 1 .. Len(list) |-> PathResolve(list[i])]), << >>)

(***************************************************************************)
(* Parsed datasets                                                         *)
(***************************************************************************)

\* null
NULL == [null |-> TRUE]

\* the element tags the classifier looks at
Tags ==
    { "x7fe00010", "x00420011", "x0040a730",
      "x30060020", "x30060039", "x30060080", "x54000100" }

\* the bytes of a file, as dataSet.byteArray.buffer
FileBytes == << 1, 2 >>

\* an element of dataSet.elements: a byte range of the file
Elements ==
    { e \in [dataOffset : 0 .. Len(FileBytes), length : 0 .. Len(FileBytes)] :
        /\ e.dataOffset + e.length <= Len(FileBytes)
        /\ (e.length = 0 => e.dataOffset = 0) }

\* new Uint8Array(dataSet.byteArray.buffer, element.dataOffset, element.length)
ByteView(ds, element) ==
    SubSeq(ds.byteArray, element.dataOffset + 1, element.dataOffset + element.length)

\* dataSet.string(tag) || '' for the SOP class: '' when the element is absent
SopClassOf(ds) == IF ds.sopClassUID = NULL THEN << >> ELSE ds.sopClassUID

(***************************************************************************)
(* lib/fileHelper.js: the classifier                                       *)
(***************************************************************************)

\* crypto.createHash('sha256').update(buffer).digest('hex'), collision-free
hashBuffer(buffer) == [sha256 |-> buffer]

isSpecialSOPClass(sopClassUID) ==
    \E prefix \in { PdfUid, SrPrefix, RtStructUid, WaveformPrefix } :
        StartsWith(sopClassUID, prefix)

\* a variant that tests only !element
NoPayloadAbsentOnly(ds, tag) == tag \notin DOMAIN ds.elements

\* !element || element.length === 0
NoPayload(ds, tag) ==
    \/ tag \notin DOMAIN ds.elements
    \/ ds.elements[tag].length = 0

\* the single-element branches: null without payload, else the element's digest
HashElement(ds, tag) ==
    IF NoPayload(ds, tag) THEN NULL
    ELSE hashBuffer(ByteView(ds, ds.elements[tag]))

\* the RT Structure targets visited in the opposite order
RtTargetsReversed == << "x30060080", "x30060039", "x30060020" >>

\* the RT Structure targets, in the order the loop visits them
RtTargets == << "x30060020", "x30060039", "x30060080" >>

\* the loop over targets: buffers.push(...buffer) for each present, non-empty one
RECURSIVE RtBuffers(_, _)
RtBuffers(ds, i) ==
    IF i > Len(RtTargets) THEN << >>
    ELSE (IF NoPayload(ds, RtTargets[i]) THEN << >>
          ELSE ByteView(ds, ds.elements[RtTargets[i]]))
         \o RtBuffers(ds, i + 1)

handleSpecialSOPClass(ds, sopClassUID) ==
    IF sopClassUID = PdfUid THEN HashElement(ds, "x00420011")
    ELSE IF StartsWith(sopClassUID, SrPrefix) THEN HashElement(ds, "x0040a730")
    ELSE IF sopClassUID = RtStructUid THEN
        (IF Len(RtBuffers(ds, 1)) = 0 THEN NULL
         ELSE hashBuffer(RtBuffers(ds, 1)))
    ELSE IF StartsWith(sopClassUID, WaveformPrefix) THEN HashElement(ds, "x54000100")
    ELSE NULL

extractRelevantData(ds) ==
    IF ~isSpecialSOPClass(SopClassOf(ds))
    THEN HashElement(ds, "x7fe00010")
    ELSE handleSpecialSOPClass(ds, SopClassOf(ds))

(***************************************************************************)
(* The scanned file system                                                 *)
(*                                                                         *)
(*   /d            a.dcm  s/  .g/  t.txt  .h.dcm                           *)
(*   /d/s          b.DCM  c                                                *)
(*   /d/.g         z.dcm                                                   *)
(*   /e            p.dicom  big.dcm  n<LF>                                 *)
(***************************************************************************)

DirD  == << Sep, "d" >>
DirDS == << Sep, "d", Sep, "s" >>
DirDG == << Sep, "d", Sep, ".", "g" >>
DirE  == << Sep, "e" >>

File(name) == [name |-> name, type |-> "file"]
Dir(name)  == [name |-> name, type |-> "dir"]

\* what readdir(dir, { withFileTypes: true }) returns for each existing directory
Listing ==
    (DirD :> << File(<< "a", ".", "d", "c", "m" >>),
                Dir(<< "s" >>),
                Dir(<< ".", "g" >>),
                File(<< "t", ".", "t", "x", "t" >>),
                File(<< ".", "h", ".", "d", "c", "m" >>) >>) @@
    (DirDS :> << File(<< "b", ".", "D", "C", "M" >>),
                 File(<< "c" >>) >>) @@
    (DirDG :> << File(<< "z", ".", "d", "c", "m" >>) >>) @@
    (DirE :> << File(<< "p", ".", "d", "i", "c", "o", "m" >>),
                File(<< "b", "i", "g", ".", "d", "c", "m" >>),
                File(<< "n", LF >>) >>)

\* the SOP class of a CT image: '1.2.840.10008.5.1.4.1.1.2'
CtImageUid == UidStem \o << "2" >>

\* an image dataset over the given file bytes whose only element is pixel data
ImageDataSet(bytes, offset, length) ==
    [ sopClassUID |-> CtImageUid,
      elements |-> ("x7fe00010" :> [dataOffset |-> offset, length |-> length]),
      byteArray |-> bytes ]

\* the size ceiling of processDicom
MaxFileSize == 1000000000

\* the shortest buffer processDicom hands to the parser
MinDicomLength == 128

\* a file: its size in bytes, whether reading and parsing it succeed, and the
\* dataset parsing yields (byteArray stands for the bytes of the file)
DicomFile(size, ds) == [size |-> size, read |-> "ok", parse |-> "ok", dataSet |-> ds]

\* a file the parser rejects
GarbageFile(size, bytes) ==
    [ size |-> size, read |-> "ok", parse |-> "throws",
      dataSet |-> [sopClassUID |-> NULL, elements |-> << >>, byteArray |-> bytes] ]

\* the regular files of the tree, by full path
Files ==
    (PathJoin(DirD, << "a", ".", "d", "c", "m" >>) :>
        DicomFile(200, ImageDataSet(<< 1, 2 >>, 0, 1))) @@
    (PathJoin(DirD, << "t", ".", "t", "x", "t" >>) :>
        DicomFile(200, ImageDataSet(<< 2, 2 >>, 0, 1))) @@
    (PathJoin(DirD, << ".", "h", ".", "d", "c", "m" >>) :>
        DicomFile(200, ImageDataSet(<< 2, 2 >>, 0, 1))) @@
    (PathJoin(DirDS, << "b", ".", "D", "C", "M" >>) :>
        DicomFile(300, ImageDataSet(<< 2, 1 >>, 1, 1))) @@
    (PathJoin(DirDS, << "c" >>) :>
        GarbageFile(200, << 1, 1 >>)) @@
    (PathJoin(DirDG, << "z", ".", "d", "c", "m" >>) :>
        DicomFile(200, ImageDataSet(<< 1, 2 >>, 0, 1))) @@
    (PathJoin(DirE, << "p", ".", "d", "i", "c", "o", "m" >>) :>
        DicomFile(200, ImageDataSet(<< 1, 2 >>, 0, 0))) @@
    (PathJoin(DirE, << "b", "i", "g", ".", "d", "c", "m" >>) :>
        DicomFile(MaxFileSize + 1, ImageDataSet(<< 1, 2 >>, 1, 1))) @@
    (PathJoin(DirE, << "n", LF >>) :>
        GarbageFile(100, << 2 >>))

(***************************************************************************)
(* removeNestedFolders applied to one argument list                        *)
(***************************************************************************)

\* folder arguments as typed: the file system root, a folder with and without
\* a trailing separator, a sub-folder and a folder whose path extends the
\* sub-folder's by one character
PathArgs ==
    { << Sep >>,
      << Sep, "a" >>,
      << Sep, "a", Sep >>,
      << Sep, "a", Sep, "b" >>,
      << Sep, "a", Sep, "b", "c" >> }

\* at most this many folder arguments are handed to removeNestedFolders
MaxPathArgs == 3

\* the non-empty argument lists
PathLists == UNION { [1 .. n -> PathArgs] : n \in 1 .. MaxPathArgs }

\* findDuplicatesInFolder.js at rest, while another program is examined
FolderIdle ==
    /\ fdFolder = << >>
    /\ fdCommunicate = FALSE
    /\ fdCommunicateHash = FALSE
    /\ fdOutputFile = FALSE
    /\ fdRun = 0
    /\ fdpc = "idle"
    /\ fdCall = << >>
    /\ fdItem = << >>
    /\ fdList = << >>
    /\ fdOutput = << >>
    /\ fdStdout = << >>
    /\ fdFirst = NULL

\* run.js at rest, while another program is examined
CompareIdle ==
    /\ cmFolders = << >>
    /\ cmpc = "idle"
    /\ cmCall = << >>
    /\ cmItem = << >>
    /\ cmList = << >>
    /\ cmHashes = << >>
    /\ cmStdout = << >>
    /\ cmStderr = << >>

\* buildHashDatabase.js at rest, while another program is examined
OrthancIdle ==
    /\ isTesting = FALSE
    /\ obInstances = NULL
    /\ obpc = "idle"
    /\ obI = 0
    /\ obPos = 0
    /\ results = << >>
    /\ execErrors = << >>
    /\ obRequests = << >>
    /\ obFetchFailed = { }
    /\ obStored = << >>
    /\ obLog = << >>
    /\ totalImagesHashed = [ number |-> 0 ]

\* no asyncPool call, while another program is examined
PoolIdle ==
    /\ poolLimit = 0
    /\ array = << >>
    /\ appc = "idle"
    /\ nextItem = 0
    /\ ret = << >>
    /\ executing = << >>
    /\ call = << >>
    /\ called = << >>
    /\ race = "none"
    /\ poolResult = NULL

\* nothing was handed to removeNestedFolders, while another program is examined
RootsIdle ==
    /\ rnArgs = << >>
    /\ rnFolders = << >>
    /\ rnpc = "idle"

\* the folder arguments of a run, as typed (before path.resolve)
RootArgs == { DirD, DirDS, DirE }

\* at most this many folder arguments
MaxRoots == 2

\* the non-empty argument lists
RootLists == UNION { [1 .. n -> RootArgs] : n \in 1 .. MaxRoots }

(***************************************************************************)
(* The classifier applied to one dataset                                   *)
(***************************************************************************)

\* at most this many elements of Tags are present in a dataset
MaxPresent == 3

\* the SOP class values a dataset is drawn with (NULL: element absent)
SopClasses ==
    { NULL,
      PdfUid,
      PdfUid \o << "0" >>,
      SrPrefix \o << "1", "1" >>,
      UidStem \o << "8", "8" >>,
      RtStructUid,
      RtStructUid \o << ".", "1" >>,
      WaveformPrefix \o << "1" >>,
      UidStem \o << "9", ".", "1" >>,
      UidStem \o << "2" >> }

ElementMaps ==
    UNION { [S -> Elements] :
              S \in { T \in SUBSET Tags : Cardinality(T) <= MaxPresent } }

DataSets ==
    [ sopClassUID : SopClasses, elements : ElementMaps, byteArray : { FileBytes } ]

\* the indexer at rest, while another program is examined
IndexerIdle ==
    /\ ixArgs = << >>
    /\ ixDeepMode = FALSE
    /\ ixpc = "idle"
    /\ ixFolders = << >>
    /\ ixFolderIdx = 0
    /\ readTarget = << >>
    /\ walkStack = << >>
    /\ pool = << >>
    /\ started = << >>
    /\ tstate = << >>
    /\ dicomCount = 0
    /\ errors = << >>
    /\ db = {}
    /\ dbClosed = FALSE
    /\ reported = NULL

\* the duplicate finder at rest, while another program is examined
FinderIdle ==
    /\ fArgs = << >>
    /\ deepMode = FALSE
    /\ communicate = FALSE
    /\ communicateHash = FALSE
    /\ outputFile = FALSE
    /\ fpc = "idle"
    /\ folders = << >>
    /\ folderIdx = 0
    /\ fReadTarget = << >>
    /\ fStack = << >>
    /\ stream = "none"
    /\ wbuf = << >>
    /\ tempFile = NULL
    /\ counter = [count |-> 0, dicoms |-> 0]
    /\ total = 0
    /\ index = 0
    /\ lines = << >>
    /\ hashes = << >>
    /\ output = << >>
    /\ totalDuplicates = 0
    /\ stdout = << >>
    /\ stderr = << >>
    /\ exitCode = NULL

\* the classifier at rest, while another program is examined
ClassifierIdle ==
    /\ dataSet = NULL
    /\ cpc = "idle"
    /\ digest = NULL

InitClassify ==
    /\ dataSet \in DataSets
    /\ cpc = "input"
    /\ digest = NULL
    /\ IndexerIdle
    /\ FinderIdle
    /\ RootsIdle
    /\ FolderIdle
    /\ CompareIdle
    /\ PoolIdle
    /\ OrthancIdle

Classify ==
    /\ cpc = "input"
    /\ digest' = extractRelevantData(dataSet)
    /\ cpc' = "done"
    /\ UNCHANGED <<dataSet, indexVars, finderVars, rootVars, folderVars, compareVars, poolVars, orthancVars>>

NextClassify == Classify

SpecClassify == InitClassify /\ [][NextClassify]_vars

(***************************************************************************)
(* The LMDB indexer: walk, processDicom, scanAndIndexFiles, main           *)
(***************************************************************************)

\* CONCURRENCY = Math.max(2, numCPUs - 1), on a machine of up to three cores
CONCURRENCY == 2

\* crypto.createHash('sha1').update(data).digest('hex'), collision-free
sha1(data) == [sha1 |-> data]

\* processDicom reaches fsPromises.readFile: stat returned a size that is not
\* above the ceiling
processDicomReadsFile(filePath) == ~ (Files[filePath].size > MaxFileSize)

\* a processDicom without the size ceiling
processDicomNoCeiling(filePath) ==
    LET f  == Files[filePath]
        ds == f.dataSet
    IN  IF f.read # "ok" THEN NULL
        ELSE IF f.size < MinDicomLength THEN NULL
        ELSE IF f.parse # "ok" THEN NULL
        ELSE [ hash |-> IF "x7fe00010" \in DOMAIN ds.elements
                        THEN sha1(ByteView(ds, ds.elements["x7fe00010"]))
                        ELSE sha1(ds.byteArray),
               sopClassUid |-> ds.sopClassUID ]

\* processDicom: null for an oversized, unreadable, short or unparsable file;
\* else the record, whose hash is over the pixel data when the element exists
\* and over the whole buffer when it does not
processDicom(filePath) ==
    LET f  == Files[filePath]
        ds == f.dataSet
    IN  IF f.size > MaxFileSize THEN NULL
        ELSE IF f.read # "ok" THEN NULL
        ELSE IF f.size < MinDicomLength THEN NULL
        ELSE IF f.parse # "ok" THEN NULL
        ELSE [ hash |-> IF "x7fe00010" \in DOMAIN ds.elements
                        THEN sha1(ByteView(ds, ds.elements["x7fe00010"]))
                        ELSE sha1(ds.byteArray),
               sopClassUid |-> ds.sopClassUID ]

\* the filter at the head of a task: without -d, dot files and files with an
\* extension other than .dcm and .dicom are left alone
TaskSkips(filePath, deep) ==
    LET fileName == Basename(filePath)
        ext      == ToLowerCase(Extname(fileName))
    IN  /\ ~deep
        /\ \/ StartsWith(fileName, << "." >>)
           \/ /\ ext # << >>
              /\ ext # << ".", "d", "c", "m" >>
              /\ ext # << ".", "d", "i", "c", "o", "m" >>

Settled(t) == tstate[t] = "settled"

\* the main flow is suspended on something that has not happened yet, so the
\* event loop may run the completion of a task's I/O
MainBlocked ==
    \/ ixpc = "readdir"
    \/ ixpc = "race" /\ \A i \in 1 .. Len(pool) : ~Settled(pool[i])
    \/ ixpc = "drain" /\ \E i \in 1 .. Len(pool) : ~Settled(pool[i])
    \/ ixpc = "done"

InitIndex ==
    /\ ixArgs \in RootLists
    /\ ixDeepMode \in BOOLEAN
    /\ ixpc = "start"
    /\ ixFolders = << >>
    /\ ixFolderIdx = 0
    /\ readTarget = << >>
    /\ walkStack = << >>
    /\ pool = << >>
    /\ started = << >>
    /\ tstate = << >>
    /\ dicomCount = 0
    /\ errors = << >>
    /\ db = {}
    /\ dbClosed = FALSE
    /\ reported = NULL
    /\ ClassifierIdle
    /\ FinderIdle
    /\ RootsIdle
    /\ FolderIdle
    /\ CompareIdle
    /\ PoolIdle
    /\ OrthancIdle

\* main: folders = removeNestedFolders(folders), then scanAndIndexFiles begins
IxStart ==
    /\ ixpc = "start"
    /\ ixFolders' = removeNestedFolders(ixArgs)
    /\ ixpc' = "next"
    /\ UNCHANGED <<ixArgs, ixDeepMode, ixFolderIdx, readTarget, walkStack, pool,
                   started, tstate, dicomCount, errors, db, dbClosed, reported>>
    /\ UNCHANGED <<classVars, finderVars, rootVars, folderVars, compareVars, poolVars, orthancVars>>

\* for (const folder of folders): walk(folder) starts with a readdir
IxNextFolder ==
    /\ ixpc = "next"
    /\ walkStack = << >>
    /\ ixFolderIdx < Len(ixFolders)
    /\ ixFolderIdx' = ixFolderIdx + 1
    /\ readTarget' = ixFolders[ixFolderIdx + 1]
    /\ ixpc' = "readdir"
    /\ UNCHANGED <<ixArgs, ixDeepMode, ixFolders, walkStack, pool, started, tstate,
                   dicomCount, errors, db, dbClosed, reported>>
    /\ UNCHANGED <<classVars, finderVars, rootVars, folderVars, compareVars, poolVars, orthancVars>>

\* walk: readdir returned the entries
IxReaddirOk ==
    /\ ixpc = "readdir"
    /\ readTarget \in DOMAIN Listing
    /\ walkStack' = Append(walkStack, [dir |-> readTarget, rest |-> Listing[readTarget]])
    /\ ixpc' = "next"
    /\ UNCHANGED <<ixArgs, ixDeepMode, ixFolders, ixFolderIdx, readTarget, pool, started,
                   tstate, dicomCount, errors, db, dbClosed, reported>>
    /\ UNCHANGED <<classVars, finderVars, rootVars, folderVars, compareVars, poolVars, orthancVars>>

\* walk: readdir threw (any error): the directory is recorded and left
IxReaddirFails ==
    /\ ixpc = "readdir"
    /\ errors' = Append(errors, readTarget)
    /\ ixpc' = "next"
    /\ UNCHANGED <<ixArgs, ixDeepMode, ixFolders, ixFolderIdx, readTarget, walkStack, pool,
                   started, tstate, dicomCount, db, dbClosed, reported>>
    /\ UNCHANGED <<classVars, finderVars, rootVars, folderVars, compareVars, poolVars, orthancVars>>

\* the innermost suspended generator and its next entry
TopFrame == walkStack[Len(walkStack)]
TopEntry == Head(TopFrame.rest)
TopPath  == PathJoin(TopFrame.dir, TopEntry.name)

\* the walk stack with the next entry of the innermost generator consumed
StackAdvanced ==
    [walkStack EXCEPT ![Len(walkStack)].rest = Tail(@)]

\* walk: the entries of a directory are exhausted
IxLeaveDir ==
    /\ ixpc = "next"
    /\ walkStack # << >>
    /\ TopFrame.rest = << >>
    /\ walkStack' = SubSeq(walkStack, 1, Len(walkStack) - 1)
    /\ UNCHANGED <<ixArgs, ixDeepMode, ixpc, ixFolders, ixFolderIdx, readTarget, pool,
                   started, tstate, dicomCount, errors, db, dbClosed, reported>>
    /\ UNCHANGED <<classVars, finderVars, rootVars, folderVars, compareVars, poolVars, orthancVars>>

\* walk: a dot entry, or an entry that is neither directory nor file
IxSkipEntry ==
    /\ ixpc = "next"
    /\ walkStack # << >>
    /\ TopFrame.rest # << >>
    /\ \/ StartsWith(TopEntry.name, << "." >>)
       \/ TopEntry.type \notin { "dir", "file" }
    /\ walkStack' = StackAdvanced
    /\ UNCHANGED <<ixArgs, ixDeepMode, ixpc, ixFolders, ixFolderIdx, readTarget, pool,
                   started, tstate, dicomCount, errors, db, dbClosed, reported>>
    /\ UNCHANGED <<classVars, finderVars, rootVars, folderVars, compareVars, poolVars, orthancVars>>

\* walk: yield* walk(fullPath) for a directory
IxEnterDir ==
    /\ ixpc = "next"
    /\ walkStack # << >>
    /\ TopFrame.rest # << >>
    /\ ~StartsWith(TopEntry.name, << "." >>)
    /\ TopEntry.type = "dir"
    /\ walkStack' = StackAdvanced
    /\ readTarget' = TopPath
    /\ ixpc' = "readdir"
    /\ UNCHANGED <<ixArgs, ixDeepMode, ixFolders, ixFolderIdx, pool, started, tstate,
                   dicomCount, errors, db, dbClosed, reported>>
    /\ UNCHANGED <<classVars, finderVars, rootVars, folderVars, compareVars, poolVars, orthancVars>>

\* pool.push(p)
PoolPush(p, t) == Append(p, t)

\* walk yields a file: the loop body starts its task, pushes the promise and,
\* with the pool full, awaits Promise.race(pool)
IxYieldFile ==
    /\ ixpc = "next"
    /\ walkStack # << >>
    /\ TopFrame.rest # << >>
    /\ ~StartsWith(TopEntry.name, << "." >>)
    /\ TopEntry.type = "file"
    /\ walkStack' = StackAdvanced
    /\ started' = Append(started, TopPath)
    /\ tstate' = Append(tstate, IF TaskSkips(TopPath, ixDeepMode)
                                THEN "settled" ELSE "running")
    /\ pool' = PoolPush(pool, Len(started) + 1)
    /\ ixpc' = IF Len(pool') >= CONCURRENCY THEN "race" ELSE "next"
    /\ UNCHANGED <<ixArgs, ixDeepMode, ixFolders, ixFolderIdx, readTarget, dicomCount,
                   errors, db, dbClosed, reported>>
    /\ UNCHANGED <<classVars, finderVars, rootVars, folderVars, compareVars, poolVars, orthancVars>>

\* pool.shift()
PoolShift(p) == Tail(p)

\* await Promise.race(pool) returns once a promise of the pool has settled;
\* then pool.shift() drops the oldest promise
IxRace ==
    /\ ixpc = "race"
    /\ \E i \in 1 .. Len(pool) : Settled(pool[i])
    /\ pool' = PoolShift(pool)
    /\ ixpc' = "next"
    /\ UNCHANGED <<ixArgs, ixDeepMode, ixFolders, ixFolderIdx, readTarget, walkStack,
                   started, tstate, dicomCount, errors, db, dbClosed, reported>>
    /\ UNCHANGED <<classVars, finderVars, rootVars, folderVars, compareVars, poolVars, orthancVars>>

\* the walk is over: await Promise.allSettled(pool)
IxWalkEnd ==
    /\ ixpc = "next"
    /\ walkStack = << >>
    /\ ixFolderIdx = Len(ixFolders)
    /\ ixpc' = "drain"
    /\ UNCHANGED <<ixArgs, ixDeepMode, ixFolders, ixFolderIdx, readTarget, walkStack, pool,
                   started, tstate, dicomCount, errors, db, dbClosed, reported>>
    /\ UNCHANGED <<classVars, finderVars, rootVars, folderVars, compareVars, poolVars, orthancVars>>

\* a task's processDicom returns: without a record the task ends, with one it
\* counts the file and awaits db.put
TaskProcessed(t) ==
    /\ MainBlocked
    /\ tstate[t] = "running"
    /\ IF processDicom(started[t]) = NULL
       THEN /\ tstate' = [tstate EXCEPT ![t] = "settled"]
            /\ UNCHANGED dicomCount
       ELSE /\ tstate' = [tstate EXCEPT ![t] = "putting"]
            /\ dicomCount' = dicomCount + 1
    /\ UNCHANGED <<ixArgs, ixDeepMode, ixpc, ixFolders, ixFolderIdx, readTarget, walkStack,
                   pool, started, errors, db, dbClosed, reported>>
    /\ UNCHANGED <<classVars, finderVars, rootVars, folderVars, compareVars, poolVars, orthancVars>>

\* a task's db.put returns, or throws on a closed database and the task's
\* catch records the error
TaskPut(t) ==
    /\ MainBlocked
    /\ tstate[t] = "putting"
    /\ tstate' = [tstate EXCEPT ![t] = "settled"]
    /\ IF dbClosed
       THEN errors' = Append(errors, started[t]) /\ UNCHANGED db
       ELSE db' = db \cup { started[t] } /\ UNCHANGED errors
    /\ UNCHANGED <<ixArgs, ixDeepMode, ixpc, ixFolders, ixFolderIdx, readTarget, walkStack,
                   pool, started, dicomCount, dbClosed, reported>>
    /\ UNCHANGED <<classVars, finderVars, rootVars, folderVars, compareVars, poolVars, orthancVars>>

\* Promise.allSettled(pool) returns: the totals are printed, scanAndIndexFiles
\* returns and main's finally closes the database
IxReport ==
    /\ ixpc = "drain"
    /\ \A i \in 1 .. Len(pool) : Settled(pool[i])
    /\ reported' = [ totalFiles |-> Len(started), dicomCount |-> dicomCount,
                     errors |-> Len(errors) ]
    /\ dbClosed' = TRUE
    /\ ixpc' = "done"
    /\ UNCHANGED <<ixArgs, ixDeepMode, ixFolders, ixFolderIdx, readTarget, walkStack, pool,
                   started, tstate, dicomCount, errors, db>>
    /\ UNCHANGED <<classVars, finderVars, rootVars, folderVars, compareVars, poolVars, orthancVars>>

NextIndex ==
    \/ IxStart
    \/ IxNextFolder
    \/ IxReaddirOk
    \/ IxReaddirFails
    \/ IxLeaveDir
    \/ IxSkipEntry
    \/ IxEnterDir
    \/ IxYieldFile
    \/ IxRace
    \/ IxWalkEnd
    \/ \E t \in 1 .. Len(tstate) : TaskProcessed(t)
    \/ \E t \in 1 .. Len(tstate) : TaskPut(t)
    \/ IxReport

SpecIndex == InitIndex /\ [][NextIndex]_vars

(***************************************************************************)
(* The spool-based duplicate finder: lib/fileHelper.js and its main script *)
(***************************************************************************)

fInputs == <<fArgs, deepMode, communicate, communicateHash, outputFile>>
fWalk   == <<folders, folderIdx, fReadTarget, fStack>>
fProc   == <<total, index, lines, hashes, output, totalDuplicates>>

\* the position of the first line feed of a text at or after position i, 0
\* when there is none
RECURSIVE NextLF(_, _)
NextLF(text, i) ==
    IF i > Len(text) THEN 0
    ELSE IF text[i] = LF THEN i
    ELSE NextLF(text, i + 1)

\* the position of the first line feed of a text, 0 when there is none
FirstLF(text) == NextLF(text, 1)

\* the lines readline yields for a text: split at each line feed, with no
\* empty line after a final line feed
RECURSIVE SplitLines(_)
SplitLines(text) ==
    IF text = << >> THEN << >>
    ELSE IF FirstLF(text) = 0 THEN << text >>
    ELSE << SubSeq(text, 1, FirstLF(text) - 1) >>
         \o SplitLines(SubSeq(text, FirstLF(text) + 1, Len(text)))

\* line.trim() is the empty string
IsBlank(line) == \A i \in 1 .. Len(line) : line[i] \in { " ", LF }

\* a variant that counts a file only when it has a hash
processDicomFileCountsHashed(filePath) ==
    IF filePath \notin DOMAIN Files THEN [hash |-> NULL, parsed |-> FALSE]
    ELSE IF Files[filePath].read # "ok" \/ Files[filePath].parse # "ok"
         THEN [hash |-> NULL, parsed |-> FALSE]
    ELSE [ hash |-> extractRelevantData(Files[filePath].dataSet),
           parsed |-> extractRelevantData(Files[filePath].dataSet) # NULL ]

\* processDicomFile: the hash extractRelevantData gives, null when reading or
\* parsing throws; parsed tells whether counter.dicoms++ was reached
processDicomFile(filePath) ==
    IF filePath \notin DOMAIN Files THEN [hash |-> NULL, parsed |-> FALSE]
    ELSE IF Files[filePath].read # "ok" \/ Files[filePath].parse # "ok"
         THEN [hash |-> NULL, parsed |-> FALSE]
    ELSE [hash |-> extractRelevantData(Files[filePath].dataSet), parsed |-> TRUE]

\* a map that opens a new entry for every file
MapPushOwnEntry(map, hash, file) ==
    Append(map, [hash |-> hash, files |-> << file >>])

\* hashes.set(hash, []) on the first occurrence, then hashes.get(hash).push(file)
MapPush(map, hash, file) ==
    IF \E i \in 1 .. Len(map) : map[i].hash = hash
    THEN [i \in 1 .. Len(map) |->
            IF map[i].hash = hash
            THEN [map[i] EXCEPT !.files = Append(@, file)]
            ELSE map[i]]
    ELSE Append(map, [hash |-> hash, files |-> << file >>])

\* cleanup: unlink the temp file if it exists; nothing is ever thrown
cleanup(file) == IF file # NULL THEN NULL ELSE file

\* a line console.log writes
Text == [type |-> "text"]

\* n lines of console.log
TextLines(n) == [i \in 1 .. n |-> Text]

\* the extension filter of writeFilePathsToTemp, applied without -d
Excluded(fullPath) ==
    \/ ToLowerCase(Extname(fullPath)) \notin
          { << >>, << ".", "d", "c", "m" >>, << ".", "d", "i", "c", "o", "m" >> }
    \/ StartsWith(Basename(fullPath), << "." >>)

\* the main flow awaits I/O, so the event loop may deliver a signal or an event
FAwaiting == fpc \in { "readdir", "finish", "count", "process" }

InitFinder ==
    /\ fArgs \in RootLists
    /\ deepMode \in BOOLEAN
    /\ communicate \in BOOLEAN
    /\ communicateHash \in BOOLEAN
    /\ outputFile \in BOOLEAN
    /\ fpc = "start"
    /\ folders = << >>
    /\ folderIdx = 0
    /\ fReadTarget = << >>
    /\ fStack = << >>
    /\ stream = "none"
    /\ wbuf = << >>
    /\ tempFile = NULL
    /\ counter = [count |-> 0, dicoms |-> 0]
    /\ total = 0
    /\ index = 0
    /\ lines = << >>
    /\ hashes = << >>
    /\ output = << >>
    /\ totalDuplicates = 0
    /\ stdout = << >>
    /\ stderr = << >>
    /\ exitCode = NULL
    /\ ClassifierIdle
    /\ IndexerIdle
    /\ RootsIdle
    /\ FolderIdle
    /\ CompareIdle
    /\ PoolIdle
    /\ OrthancIdle

\* main: folders = removeNestedFolders(folders); counter = { count: 0, dicoms: 0 }
FStart ==
    /\ fpc = "start"
    /\ folders' = removeNestedFolders(fArgs)
    /\ fpc' = "next"
    /\ UNCHANGED <<fInputs, folderIdx, fReadTarget, fStack, stream, wbuf, tempFile,
                   counter, fProc, stdout, stderr, exitCode>>
    /\ UNCHANGED <<classVars, indexVars, rootVars, folderVars, compareVars, poolVars, orthancVars>>

\* main's loop takes a folder: saveAllFilePaths creates the write stream (the
\* file is opened later) and writeFilePathsToTemp awaits its first readdir
FNextFolder ==
    /\ fpc = "next"
    /\ stream \in { "none", "closed" }
    /\ folderIdx < Len(folders)
    /\ folderIdx' = folderIdx + 1
    /\ stdout' = Append(stdout, Text)
    /\ stream' = "opening"
    /\ fReadTarget' = folders[folderIdx + 1]
    /\ fpc' = "readdir"
    /\ UNCHANGED <<fInputs, folders, fStack, wbuf, tempFile, counter, fProc, stderr,
                   exitCode>>
    /\ UNCHANGED <<classVars, indexVars, rootVars, folderVars, compareVars, poolVars, orthancVars>>

\* the write stream has opened the file (flags 'a': created when missing)
StreamOpened ==
    /\ FAwaiting
    /\ stream = "opening"
    /\ stream' = "open"
    /\ tempFile' = IF tempFile = NULL THEN << >> ELSE tempFile
    /\ UNCHANGED <<fInputs, fpc, fWalk, wbuf, counter, fProc, stdout, stderr, exitCode>>
    /\ UNCHANGED <<classVars, indexVars, rootVars, folderVars, compareVars, poolVars, orthancVars>>

\* writeFilePathsToTemp: readdir returned the entries
FReaddirOk ==
    /\ fpc = "readdir"
    /\ fReadTarget \in DOMAIN Listing
    /\ fStack' = Append(fStack, [dir |-> fReadTarget, rest |-> Listing[fReadTarget]])
    /\ fpc' = "next"
    /\ UNCHANGED <<fInputs, folders, folderIdx, fReadTarget, stream, wbuf, tempFile,
                   counter, fProc, stdout, stderr, exitCode>>
    /\ UNCHANGED <<classVars, indexVars, rootVars, folderVars, compareVars, poolVars, orthancVars>>

\* writeFilePathsToTemp: readdir threw EACCES or EPERM: a warning, then return
FReaddirDenied ==
    /\ fpc = "readdir"
    /\ fReadTarget \in DOMAIN Listing
    /\ stderr' = Append(stderr, [type |-> "skipping", dir |-> fReadTarget])
    /\ fpc' = "next"
    /\ UNCHANGED <<fInputs, fWalk, stream, wbuf, tempFile, counter, fProc, stdout,
                   exitCode>>
    /\ UNCHANGED <<classVars, indexVars, rootVars, folderVars, compareVars, poolVars, orthancVars>>

\* what may be left of the temp file when the process is gone: the handlers
\* have run cleanup, and an open still pending may yet create the file
AtExit(file, streamState) ==
    { cleanup(cleanup(file)) } \cup (IF streamState = "opening" THEN { << >> } ELSE { })

\* process.exit(code) after the handler's cleanup: the 'exit' handler reports a
\* non-zero code and runs cleanup again
ExitWith(code, report) ==
    /\ fpc' = "exited"
    /\ exitCode' = code
    /\ tempFile' \in AtExit(tempFile, stream)
    /\ stderr' = stderr \o report
                 \o (IF code # 0 THEN << [type |-> "exit-code"] >> ELSE << >>)
    /\ UNCHANGED <<fInputs, fWalk, stream, wbuf, counter, fProc, stdout>>
    /\ UNCHANGED <<classVars, indexVars, rootVars, folderVars, compareVars, poolVars, orthancVars>>

\* writeFilePathsToTemp: readdir threw another error (ENOENT, ENOTDIR, EIO ...):
\* it is rethrown, main's promise rejects and the unhandledRejection handler
\* ends the process
FReaddirThrows ==
    /\ fpc = "readdir"
    /\ ExitWith(1, << [type |-> "unhandled-rejection"] >>)

\* the innermost suspended walker call and its next entry
FTopFrame == fStack[Len(fStack)]
FTopEntry == Head(FTopFrame.rest)
FTopPath  == PathJoin(FTopFrame.dir, FTopEntry.name)

FStackAdvanced == [fStack EXCEPT ![Len(fStack)].rest = Tail(@)]

\* writeFilePathsToTemp: the entries of a directory are exhausted
FLeaveDir ==
    /\ fpc = "next"
    /\ fStack # << >>
    /\ FTopFrame.rest = << >>
    /\ fStack' = SubSeq(fStack, 1, Len(fStack) - 1)
    /\ UNCHANGED <<fInputs, fpc, folders, folderIdx, fReadTarget, stream, wbuf, tempFile,
                   counter, fProc, stdout, stderr, exitCode>>
    /\ UNCHANGED <<classVars, indexVars, rootVars, folderVars, compareVars, poolVars, orthancVars>>

\* writeFilePathsToTemp: a directory entry: the recursive call awaits readdir
FEnterDir ==
    /\ fpc = "next"
    /\ fStack # << >>
    /\ FTopFrame.rest # << >>
    /\ FTopEntry.type = "dir"
    /\ fStack' = FStackAdvanced
    /\ fReadTarget' = FTopPath
    /\ fpc' = "readdir"
    /\ UNCHANGED <<fInputs, folders, folderIdx, stream, wbuf, tempFile, counter, fProc,
                   stdout, stderr, exitCode>>
    /\ UNCHANGED <<classVars, indexVars, rootVars, folderVars, compareVars, poolVars, orthancVars>>

\* writeFilePathsToTemp: an entry that is no directory and no file, or a file
\* the extension filter excludes
FSkipEntry ==
    /\ fpc = "next"
    /\ fStack # << >>
    /\ FTopFrame.rest # << >>
    /\ \/ FTopEntry.type \notin { "dir", "file" }
       \/ FTopEntry.type = "file" /\ ~deepMode /\ Excluded(FTopPath)
    /\ fStack' = FStackAdvanced
    /\ UNCHANGED <<fInputs, fpc, folders, folderIdx, fReadTarget, stream, wbuf, tempFile,
                   counter, fProc, stdout, stderr, exitCode>>
    /\ UNCHANGED <<classVars, indexVars, rootVars, folderVars, compareVars, poolVars, orthancVars>>

\* writeFilePathsToTemp: an included file: counted, logged and written
FIncludeFile ==
    /\ fpc = "next"
    /\ fStack # << >>
    /\ FTopFrame.rest # << >>
    /\ FTopEntry.type = "file"
    /\ deepMode \/ ~Excluded(FTopPath)
    /\ fStack' = FStackAdvanced
    /\ counter' = [counter EXCEPT !.count = @ + 1]
    /\ stdout' = Append(stdout, Text)
    /\ wbuf' = wbuf \o FTopPath \o << LF >>
    /\ UNCHANGED <<fInputs, fpc, folders, folderIdx, fReadTarget, stream, tempFile, fProc,
                   stderr, exitCode>>
    /\ UNCHANGED <<classVars, indexVars, rootVars, folderVars, compareVars, poolVars, orthancVars>>

\* saveAllFilePaths: the walk of the folder returned: writeStream.end() and
\* await once(writeStream, 'finish')
FEndStream ==
    /\ fpc = "next"
    /\ fStack = << >>
    /\ stream \in { "opening", "open" }
    /\ fpc' = "finish"
    /\ UNCHANGED <<fInputs, fWalk, stream, wbuf, tempFile, counter, fProc, stdout, stderr,
                   exitCode>>
    /\ UNCHANGED <<classVars, indexVars, rootVars, folderVars, compareVars, poolVars, orthancVars>>

\* 'finish': everything written is in the file
FStreamFinish ==
    /\ fpc = "finish"
    /\ stream = "open"
    /\ tempFile' = tempFile \o wbuf
    /\ wbuf' = << >>
    /\ stream' = "closed"
    /\ fpc' = "next"
    /\ UNCHANGED <<fInputs, fWalk, counter, fProc, stdout, stderr, exitCode>>
    /\ UNCHANGED <<classVars, indexVars, rootVars, folderVars, compareVars, poolVars, orthancVars>>

\* processFilePaths is called: the first pass reads the file to count its lines
FBeginCount ==
    /\ fpc = "next"
    /\ stream \in { "none", "closed" }
    /\ folderIdx = Len(folders)
    /\ fpc' = "count"
    /\ UNCHANGED <<fInputs, fWalk, stream, wbuf, tempFile, counter, fProc, stdout, stderr,
                   exitCode>>
    /\ UNCHANGED <<classVars, indexVars, rootVars, folderVars, compareVars, poolVars, orthancVars>>

\* the first pass is over: total is the number of lines; the second pass opens
FCounted ==
    /\ fpc = "count"
    /\ total' = Len(SplitLines(tempFile))
    /\ lines' = SplitLines(tempFile)
    /\ index' = 0
    /\ fpc' = "process"
    /\ UNCHANGED <<fInputs, fWalk, stream, wbuf, tempFile, counter, hashes, output,
                   totalDuplicates, stdout, stderr, exitCode>>
    /\ UNCHANGED <<classVars, indexVars, rootVars, folderVars, compareVars, poolVars, orthancVars>>

\* the second pass reads a line that trims to nothing
FBlankLine ==
    /\ fpc = "process"
    /\ lines # << >>
    /\ IsBlank(Head(lines))
    /\ lines' = Tail(lines)
    /\ UNCHANGED <<fInputs, fpc, fWalk, stream, wbuf, tempFile, counter, total, index,
                   hashes, output, totalDuplicates, stdout, stderr, exitCode>>
    /\ UNCHANGED <<classVars, indexVars, rootVars, folderVars, compareVars, poolVars, orthancVars>>

\* the second pass reads a path: await processFn(line, index, total); index++
FProcessLine ==
    /\ fpc = "process"
    /\ lines # << >>
    /\ ~IsBlank(Head(lines))
    /\ LET filePath == Head(lines)
           r        == processDicomFile(filePath)
       IN  /\ counter' = [counter EXCEPT !.dicoms = IF r.parsed THEN @ + 1 ELSE @]
           /\ IF r.hash = NULL
              THEN UNCHANGED <<hashes, stdout>>
              ELSE IF communicateHash
              THEN /\ stdout' = Append(stdout,
                                       [ type |-> "hash", fullPath |-> filePath,
                                         hash |-> r.hash, progressCurrent |-> index + 1,
                                         progressTotal |-> total ])
                   /\ UNCHANGED hashes
              ELSE /\ hashes' = MapPush(hashes, r.hash, filePath)
                   /\ UNCHANGED stdout
    /\ index' = index + 1
    /\ lines' = Tail(lines)
    /\ UNCHANGED <<fInputs, fpc, fWalk, stream, wbuf, tempFile, total, output,
                   totalDuplicates, stderr, exitCode>>
    /\ UNCHANGED <<classVars, indexVars, rootVars, folderVars, compareVars, poolVars, orthancVars>>

\* a filter that lets every entry through
DuplicatesAll(map) == SelectSeq(map, LAMBDA e : Len(e.files) > 0)

\* [...hashes.entries()].filter(([_, files]) => files.length > 1)
Duplicates(map) == SelectSeq(map, LAMBDA e : Len(e.files) > 1)

\* what duplicates.forEach writes to standard output
RECURSIVE GroupLines(_)
GroupLines(dups) ==
    IF dups = << >> THEN << >>
    ELSE (IF ~outputFile /\ ~communicate
          THEN TextLines(Len(Head(dups).files) + 2) ELSE << >>)
         \o (IF communicate
             THEN << [ type |-> "duplicate", group |-> Head(dups).files,
                       hash |-> Head(dups).hash ] >>
             ELSE << >>)
         \o GroupLines(Tail(dups))

\* a total that counts every file of a duplicate group
RECURSIVE RedundantWithOriginals(_)
RedundantWithOriginals(dups) ==
    IF dups = << >> THEN 0
    ELSE Len(Head(dups).files) + RedundantWithOriginals(Tail(dups))

\* totalDuplicates += fileList.length - 1, over the duplicate groups
RECURSIVE Redundant(_)
Redundant(dups) ==
    IF dups = << >> THEN 0
    ELSE Len(Head(dups).files) - 1 + Redundant(Tail(dups))

\* what the summary section writes to standard output
SummaryLines(dups) ==
    (IF ~outputFile /\ ~communicate THEN TextLines(3) ELSE << >>)
    \o (IF communicate
        THEN << [ type |-> "summary", totalFiles |-> counter.count,
                  totalDicoms |-> counter.dicoms,
                  totalDuplicates |-> Redundant(dups) ] >>
        ELSE << >>)
    \o (IF outputFile
        THEN (IF ~communicate THEN TextLines(1) ELSE << >>) \o TextLines(2)
        ELSE << >>)

\* the spool is read to its end: main reports and calls cleanup
FReport ==
    /\ fpc = "process"
    /\ lines = << >>
    /\ LET dups == Duplicates(hashes) IN
       IF communicateHash
       THEN UNCHANGED <<stdout, output, totalDuplicates>>
       ELSE IF dups = << >>
       THEN /\ stdout' = Append(stdout,
                                IF ~communicate THEN Text
                                ELSE [type |-> "summary", totalDuplicates |-> 0])
            /\ UNCHANGED <<output, totalDuplicates>>
       ELSE /\ stdout' = stdout \o GroupLines(dups) \o SummaryLines(dups)
            /\ output' = [i \in 1 .. Len(dups) |-> dups[i].files]
            /\ totalDuplicates' = Redundant(dups)
    /\ tempFile' = cleanup(tempFile)
    /\ fpc' = "finished"
    /\ UNCHANGED <<fInputs, fWalk, stream, wbuf, counter, total, index, lines, hashes,
                   stderr, exitCode>>
    /\ UNCHANGED <<classVars, indexVars, rootVars, folderVars, compareVars, poolVars, orthancVars>>

\* nothing is left to do: the process exits with code 0 and the 'exit' handler
\* runs cleanup
FExit ==
    /\ fpc = "finished"
    /\ ExitWith(0, << >>)

\* SIGINT: cleanup(); process.exit(0)
Sigint ==
    /\ FAwaiting
    /\ ExitWith(0, << >>)

\* SIGTERM: cleanup(); process.exit(0)
Sigterm ==
    /\ FAwaiting
    /\ ExitWith(0, << >>)

\* the write stream emits 'error' with no listener: uncaughtException
UncaughtException ==
    /\ FAwaiting
    /\ stream \in { "opening", "open" }
    /\ ExitWith(1, << [type |-> "uncaught-exception"] >>)

NextFinder ==
    \/ FStart
    \/ FNextFolder
    \/ StreamOpened
    \/ FReaddirOk
    \/ FReaddirDenied
    \/ FReaddirThrows
    \/ FLeaveDir
    \/ FEnterDir
    \/ FSkipEntry
    \/ FIncludeFile
    \/ FEndStream
    \/ FStreamFinish
    \/ FBeginCount
    \/ FCounted
    \/ FBlankLine
    \/ FProcessLine
    \/ FReport
    \/ FExit
    \/ Sigint
    \/ Sigterm
    \/ UncaughtException

SpecFinder == InitFinder /\ [][NextFinder]_vars

\* the steps the run takes by itself: the main flow and the completions of the
\* directory reads, file reads and stream operations it awaits
FinderSteps ==
    \/ FStart
    \/ FNextFolder
    \/ StreamOpened
    \/ FReaddirOk
    \/ FReaddirDenied
    \/ FReaddirThrows
    \/ FLeaveDir
    \/ FEnterDir
    \/ FSkipEntry
    \/ FIncludeFile
    \/ FEndStream
    \/ FStreamFinish
    \/ FBeginCount
    \/ FCounted
    \/ FBlankLine
    \/ FProcessLine
    \/ FReport
    \/ FExit

\* the finder when every operation it awaits returns, with data or with an
\* error; signals and stream errors may arrive or not
SpecFinderLive == InitFinder /\ [][NextFinder]_vars /\ WF_vars(FinderSteps)

(***************************************************************************)
(* findDuplicatesInFolder.js: getDicomFilesRecursively, asyncPool and      *)
(* findDuplicates, run twice over one tree                                 *)
(*                                                                         *)
(*   /f      a.dcm  l  s/        l is a symbolic link to nothing           *)
(*   /f/s    b.dcm  r            r is no DICOM file                        *)
(***************************************************************************)

DirF  == << Sep, "f" >>
DirFS == PathJoin(DirF, << "s" >>)

\* what fs.promises.readdir(directory) returns: the names
FolderListing ==
    (DirF  :> << << "a", ".", "d", "c", "m" >>, << "l" >>, << "s" >> >>) @@
    (DirFS :> << << "b", ".", "d", "c", "m" >>, << "r" >> >>)

\* the paths items.map makes of the names of a directory
EntriesOf(directory) ==
    { PathJoin(directory, FolderListing[directory][i]) :
        i \in 1 .. Len(FolderListing[directory]) }

FolderDirs == DOMAIN FolderListing

FolderEntries == UNION { EntriesOf(d) : d \in FolderDirs }

\* the files of the tree; a.dcm and b.dcm differ in their bytes, not in their
\* pixel bytes
FolderFiles ==
    (PathJoin(DirF, << "a", ".", "d", "c", "m" >>) :>
        DicomFile(200, ImageDataSet(<< 1, 2 >>, 0, 1))) @@
    (PathJoin(DirFS, << "b", ".", "d", "c", "m" >>) :>
        DicomFile(300, ImageDataSet(<< 2, 1 >>, 1, 1))) @@
    (PathJoin(DirFS, << "r" >>) :>
        GarbageFile(200, << 1, 1 >>))

\* fs.promises.stat(fullPath): a directory, a file, or an error for the link
\* whose target does not exist
FolderStat(fullPath) ==
    IF fullPath \in FolderDirs THEN "dir"
    ELSE IF fullPath \in DOMAIN FolderFiles THEN "file"
    ELSE "throws"

\* the directory whose listing holds the entry
ParentOf(fullPath) == CHOOSE d \in FolderDirs : fullPath \in EntriesOf(d)

\* isDicomFile: the bytes 128 .. 131 read 'DICM' (what the parser asks for too)
isDicomFile(filePath) ==
    /\ FolderFiles[filePath].read = "ok"
    /\ FolderFiles[filePath].parse = "ok"

\* processDicomFile of this script: readFileSync, parseDicom,
\* extractRelevantData; null when one of them throws
processDicomFileSync(filePath) ==
    IF FolderFiles[filePath].read # "ok" \/ FolderFiles[filePath].parse # "ok"
    THEN NULL
    ELSE extractRelevantData(FolderFiles[filePath].dataSet)

\* every callback of items.map of the directory has run to its end
AllDone(st, directory) == \A e \in EntriesOf(directory) : st.item[e] = "done"

\* the call for the directory returns its dicomFiles: the caller's callback
\* pushes a copy of them on its own array and ends, which may complete the
\* caller's Promise.all in turn
RECURSIVE Returned(_, _)
Returned(st, directory) ==
    LET st1 == [st EXCEPT !.call[directory] = "returned"] IN
    IF directory = fdFolder THEN st1
    ELSE LET parent == ParentOf(directory)
             st2 == [st1 EXCEPT !.item[directory] = "done",
                                !.list[parent] = @ \o st1.list[directory]]
         IN  IF st2.call[parent] = "pending" /\ AllDone(st2, parent)
             THEN Returned(st2, parent)
             ELSE st2

\* the state of discovery as one record
Discovery == [call |-> fdCall, item |-> fdItem, list |-> fdList]

\* the events the iterator writes, file by file (processed counts from 1)
RECURSIVE IteratorEvents(_, _)
IteratorEvents(files, i) ==
    IF i > Len(files) THEN << >>
    ELSE (IF fdCommunicate
          THEN << [type |-> "progress", current |-> i, total |-> Len(files)] >>
          ELSE IF fdCommunicateHash /\ processDicomFileSync(files[i]) # NULL
          THEN << [ type |-> "hash", fullPath |-> files[i],
                    hash |-> processDicomFileSync(files[i]),
                    progressCurrent |-> i, progressTotal |-> Len(files) ] >>
          ELSE << >>)
         \o IteratorEvents(files, i + 1)

\* results.forEach: the files with a hash, grouped under it in the order of
\* the file list
RECURSIVE GroupByHash(_, _)
GroupByHash(files, map) ==
    IF files = << >> THEN map
    ELSE GroupByHash(Tail(files),
                     IF processDicomFileSync(Head(files)) = NULL THEN map
                     ELSE MapPush(map, processDicomFileSync(Head(files)), Head(files)))

\* what duplicates.forEach writes
RECURSIVE FolderGroupLines(_)
FolderGroupLines(dups) ==
    IF dups = << >> THEN << >>
    ELSE (IF ~fdOutputFile /\ ~fdCommunicate
          THEN TextLines(Len(Head(dups).files) + 2) ELSE << >>)
         \o (IF fdCommunicate
             THEN << [ type |-> "duplicate", group |-> Head(dups).files,
                       hash |-> Head(dups).hash ] >>
             ELSE << >>)
         \o FolderGroupLines(Tail(dups))

\* what findDuplicates writes once the file list is there
FolderReport(files) ==
    LET dups == Duplicates(GroupByHash(files, << >>)) IN
    IteratorEvents(files, 1)
    \o (IF fdCommunicateHash THEN << >>
        ELSE IF dups = << >>
        THEN (IF ~fdCommunicate THEN << Text >>
              ELSE << [type |-> "summary", totalDuplicates |-> 0] >>)
        ELSE FolderGroupLines(dups)
             \o (IF ~fdOutputFile /\ ~fdCommunicate THEN TextLines(1) ELSE << >>)
             \o (IF ~fdCommunicate THEN TextLines(2) ELSE << >>)
             \o (IF fdCommunicate
                 THEN << [type |-> "summary", totalDuplicates |-> Redundant(dups)] >>
                 ELSE << >>)
             \o (IF fdOutputFile /\ ~fdCommunicate THEN TextLines(1) ELSE << >>))

\* output: the file lists of the duplicate sets
FolderOutput(files) ==
    LET dups == Duplicates(GroupByHash(files, << >>)) IN
    IF fdCommunicateHash THEN << >>
    ELSE [i \in 1 .. Len(dups) |-> dups[i].files]

\* the callbacks moved discovery to st: when the call for the folder returned
\* with that, findDuplicates runs the pool over the files it was handed and
\* reports, before any other callback runs
Continue(st) ==
    /\ fdCall' = st.call
    /\ fdItem' = st.item
    /\ fdList' = st.list
    /\ IF st.call[fdFolder] = "returned" /\ fdCall[fdFolder] # "returned"
       THEN /\ fdOutput' = FolderOutput(st.list[fdFolder])
            /\ fdStdout' = fdStdout \o FolderReport(st.list[fdFolder])
            /\ fdpc' = "reported"
       ELSE UNCHANGED <<fdOutput, fdStdout, fdpc>>
    /\ UNCHANGED <<fdFolder, fdCommunicate, fdCommunicateHash, fdOutputFile, fdRun, fdFirst>>
    /\ UNCHANGED <<classVars, indexVars, finderVars, rootVars, compareVars, poolVars, orthancVars>>

\* a process that has not started: no call, no callback, empty arrays
FreshDiscovery ==
    [ call |-> [d \in FolderDirs |-> "idle"],
      item |-> [e \in FolderEntries |-> "idle"],
      list |-> [d \in FolderDirs |-> << >>] ]

InitFolder ==
    /\ fdFolder \in FolderDirs
    /\ fdCommunicate \in BOOLEAN
    /\ fdCommunicateHash \in BOOLEAN
    /\ fdOutputFile \in BOOLEAN
    /\ fdRun = 1
    /\ fdpc = "start"
    /\ fdCall = FreshDiscovery.call
    /\ fdItem = FreshDiscovery.item
    /\ fdList = FreshDiscovery.list
    /\ fdOutput = << >>
    /\ fdStdout = << >>
    /\ fdFirst = NULL
    /\ ClassifierIdle
    /\ IndexerIdle
    /\ FinderIdle
    /\ RootsIdle
    /\ CompareIdle
    /\ PoolIdle
    /\ OrthancIdle

\* findDuplicates(folder): await getDicomFilesRecursively(folder)
FdStart ==
    /\ fdpc = "start"
    /\ fdpc' = "discover"
    /\ fdCall' = [fdCall EXCEPT ![fdFolder] = "listing"]
    /\ UNCHANGED <<fdFolder, fdCommunicate, fdCommunicateHash, fdOutputFile, fdRun, fdItem,
                   fdList, fdOutput, fdStdout, fdFirst>>
    /\ UNCHANGED <<classVars, indexVars, finderVars, rootVars, compareVars, poolVars, orthancVars>>

\* getDicomFilesRecursively: access and readdir returned; items.map starts a
\* callback per name, each awaiting stat
FdListed(directory) ==
    /\ fdCall[directory] = "listing"
    /\ Continue([Discovery EXCEPT
                    !.call[directory] = "pending",
                    !.item = [e \in FolderEntries |->
                                IF e \in EntriesOf(directory) THEN "stat" ELSE @[e]]])

\* a callback's stat returned: an error rejects Promise.all, whose catch lets
\* the call return what dicomFiles holds by now; a directory starts a call of
\* its own; a file goes on to isDicomFile
FdStat(fullPath) ==
    /\ fdItem[fullPath] = "stat"
    /\ LET kind   == FolderStat(fullPath)
           parent == ParentOf(fullPath)
       IN  IF kind = "throws"
           THEN LET st == [Discovery EXCEPT !.item[fullPath] = "rejected"] IN
                Continue(IF st.call[parent] = "pending" THEN Returned(st, parent) ELSE st)
           ELSE IF kind = "dir"
           THEN Continue([Discovery EXCEPT !.item[fullPath] = "recursing",
                                           !.call[fullPath] = "listing"])
           ELSE Continue([Discovery EXCEPT !.item[fullPath] = "check"])

\* a callback's isDicomFile returned: a DICOM file is pushed on dicomFiles; the
\* last callback to end resolves Promise.all and the call returns
FdChecked(fullPath) ==
    /\ fdItem[fullPath] = "check"
    /\ LET parent == ParentOf(fullPath)
           st == [Discovery EXCEPT
                     !.item[fullPath] = "done",
                     !.list[parent] = IF isDicomFile(fullPath)
                                      THEN Append(@, fullPath) ELSE @]
       IN  Continue(IF st.call[parent] = "pending" /\ AllDone(st, parent)
                    THEN Returned(st, parent) ELSE st)

\* the process has ended (nothing is pending any more); the script is run
\* again over the same tree with the same arguments
FdRerun ==
    /\ fdpc = "reported"
    /\ fdRun = 1
    /\ \A d \in FolderDirs : fdCall[d] # "listing"
    /\ \A e \in FolderEntries : fdItem[e] \notin { "stat", "check", "recursing" }
    /\ fdFirst' = { { fdOutput[g][i] : i \in 1 .. Len(fdOutput[g]) } :
                    g \in 1 .. Len(fdOutput) }
    /\ fdRun' = 2
    /\ fdpc' = "start"
    /\ fdCall' = FreshDiscovery.call
    /\ fdItem' = FreshDiscovery.item
    /\ fdList' = FreshDiscovery.list
    /\ fdOutput' = << >>
    /\ fdStdout' = << >>
    /\ UNCHANGED <<fdFolder, fdCommunicate, fdCommunicateHash, fdOutputFile>>
    /\ UNCHANGED <<classVars, indexVars, finderVars, rootVars, compareVars, poolVars, orthancVars>>

NextFolder ==
    \/ FdStart
    \/ \E d \in FolderDirs : FdListed(d)
    \/ \E e \in FolderEntries : FdStat(e)
    \/ \E e \in FolderEntries : FdChecked(e)
    \/ FdRerun

SpecFolder == InitFolder /\ [][NextFolder]_vars

(***************************************************************************)
(* run.js: getDicomFilesRecursively, getDicomHashes and compareFolders     *)
(* over two folders of the tree /f                                         *)
(***************************************************************************)

\* hashPixelData: crypto.createHash('sha256').update(pixelData).digest('hex')
hashPixelData(pixelData) == [sha256 |-> pixelData]

\* processDicomFile of run.js: the digest of the pixel-data element when the
\* dataset has one, null without it and when reading or parsing throws
processDicomFileRun(filePath) ==
    LET f  == FolderFiles[filePath]
        ds == f.dataSet
    IN  IF f.read # "ok" \/ f.parse # "ok" THEN NULL
        ELSE IF "x7fe00010" \notin DOMAIN ds.elements THEN NULL
        ELSE hashPixelData(ByteView(ds, ds.elements["x7fe00010"]))

\* the loop of getDicomHashes: the files with a hash, listed under it in the
\* order of the file list
RECURSIVE getDicomHashes(_, _)
getDicomHashes(files, found) ==
    IF files = << >> THEN found
    ELSE getDicomHashes(Tail(files),
                        IF processDicomFileRun(Head(files)) = NULL THEN found
                        ELSE MapPush(found, processDicomFileRun(Head(files)),
                                     Head(files)))

\* hashes2[hash] || []
FilesUnder(found, hash) ==
    IF \E i \in 1 .. Len(found) : found[i].hash = hash
    THEN found[CHOOSE i \in 1 .. Len(found) : found[i].hash = hash].files
    ELSE << >>

\* compareFolders, the loop over filesInFolder1: the file, then its matches or
\* 'No matches found', then the rule
RECURSIVE FileLines(_, _)
FileLines(filesInFolder1, filesInFolder2) ==
    IF filesInFolder1 = << >> THEN << >>
    ELSE << [type |-> "file", path |-> Head(filesInFolder1)] >>
         \o (IF Len(filesInFolder2) > 0
             THEN << [type |-> "matches"] >>
                  \o [i \in 1 .. Len(filesInFolder2) |->
                        [type |-> "match", path |-> filesInFolder2[i]]]
             ELSE << [type |-> "nomatch"] >>)
         \o << [type |-> "rule"] >>
         \o FileLines(Tail(filesInFolder1), filesInFolder2)

\* compareFolders, the loop over Object.keys(hashes1)
RECURSIVE CompareLines(_, _)
CompareLines(hashes1, hashes2) ==
    IF hashes1 = << >> THEN << >>
    ELSE FileLines(Head(hashes1).files, FilesUnder(hashes2, Head(hashes1).hash))
         \o CompareLines(Tail(hashes1), hashes2)

\* the call for the directory returns its dicomFiles: the caller's callback
\* pushes a copy of them on its own array and ends, which may complete the
\* caller's Promise.all in turn
RECURSIVE CmReturned(_, _, _)
CmReturned(st, directory, root) ==
    LET st1 == [st EXCEPT !.call[directory] = "returned"] IN
    IF directory = root THEN st1
    ELSE LET parent == ParentOf(directory)
             st2 == [st1 EXCEPT !.item[directory] = "done",
                                !.list[parent] = @ \o st1.list[directory]]
         IN  IF st2.call[parent] = "pending" /\ AllDone(st2, parent)
             THEN CmReturned(st2, parent, root)
             ELSE st2

\* the state of the discovery of scan k as one record
CmDiscovery(k) == [call |-> cmCall[k], item |-> cmItem[k], list |-> cmList[k]]

\* a callback moved the discovery of scan k to st and wrote log to standard
\* error. When the call for the scan's folder returned with that, getDicomHashes
\* found the files it was handed before any other callback runs; after the
\* first scan compareFolders starts the second, after the second it compares
CmContinue(k, st, log) ==
    LET root    == cmFolders[k]
        handed  == st.call[root] = "returned" /\ cmCall[k][root] # "returned"
        found  == getDicomHashes(st.list[root], << >>)
    IN  /\ cmItem' = [cmItem EXCEPT ![k] = st.item]
        /\ cmList' = [cmList EXCEPT ![k] = st.list]
        /\ cmStderr' = cmStderr \o log
        /\ IF ~handed
           THEN /\ cmCall' = [cmCall EXCEPT ![k] = st.call]
                /\ UNCHANGED <<cmpc, cmHashes, cmStdout>>
           ELSE IF k = 1
           THEN /\ cmCall' = [cmCall EXCEPT ![1] = st.call,
                                            ![2][cmFolders[2]] = "listing"]
                /\ cmHashes' = [cmHashes EXCEPT ![1] = found]
                /\ cmStdout' = Append(cmStdout, Text)
                /\ cmpc' = "scan2"
           ELSE /\ cmCall' = [cmCall EXCEPT ![k] = st.call]
                /\ cmHashes' = [cmHashes EXCEPT ![2] = found]
                /\ cmStdout' = cmStdout \o << Text, Text, [type |-> "rule"] >>
                                  \o CompareLines(cmHashes[1], found)
                /\ cmpc' = "reported"
        /\ UNCHANGED cmFolders
        /\ UNCHANGED <<classVars, indexVars, finderVars, rootVars, folderVars, poolVars, orthancVars>>

InitCompare ==
    /\ cmFolders \in FolderDirs \X FolderDirs
    /\ cmpc = "start"
    /\ cmCall = [k \in 1 .. 2 |-> FreshDiscovery.call]
    /\ cmItem = [k \in 1 .. 2 |-> FreshDiscovery.item]
    /\ cmList = [k \in 1 .. 2 |-> FreshDiscovery.list]
    /\ cmHashes = << << >>, << >> >>
    /\ cmStdout = << >>
    /\ cmStderr = << >>
    /\ ClassifierIdle
    /\ IndexerIdle
    /\ FinderIdle
    /\ RootsIdle
    /\ FolderIdle
    /\ PoolIdle
    /\ OrthancIdle

\* compareFolders: await getDicomHashes(folder1), which awaits
\* getDicomFilesRecursively(folder1)
CmStart ==
    /\ cmpc = "start"
    /\ cmpc' = "scan1"
    /\ cmCall' = [cmCall EXCEPT ![1][cmFolders[1]] = "listing"]
    /\ UNCHANGED <<cmFolders, cmItem, cmList, cmHashes, cmStdout, cmStderr>>
    /\ UNCHANGED <<classVars, indexVars, finderVars, rootVars, folderVars, poolVars, orthancVars>>

\* getDicomFilesRecursively: access and readdir returned; items.map starts a
\* callback per name, each awaiting stat
CmListed(k, directory) ==
    /\ cmCall[k][directory] = "listing"
    /\ CmContinue(k,
                  [CmDiscovery(k) EXCEPT
                      !.call[directory] = "pending",
                      !.item = [e \in FolderEntries |->
                                  IF e \in EntriesOf(directory) THEN "stat" ELSE @[e]]],
                  << >>)

\* a callback's stat returned: an error rejects Promise.all, whose catch
\* writes 'Unable to read folder at' and lets the call return what dicomFiles
\* holds by now; a directory starts a call of its own; a file goes on to
\* isDicomFile
CmStat(k, fullPath) ==
    /\ cmItem[k][fullPath] = "stat"
    /\ LET kind   == FolderStat(fullPath)
           parent == ParentOf(fullPath)
       IN  IF kind = "throws"
           THEN LET st == [CmDiscovery(k) EXCEPT !.item[fullPath] = "rejected"] IN
                IF st.call[parent] = "pending"
                THEN CmContinue(k, CmReturned(st, parent, cmFolders[k]),
                                << [type |-> "unable", dir |-> parent] >>)
                ELSE CmContinue(k, st, << >>)
           ELSE IF kind = "dir"
           THEN CmContinue(k, [CmDiscovery(k) EXCEPT !.item[fullPath] = "recursing",
                                                     !.call[fullPath] = "listing"],
                           << >>)
           ELSE CmContinue(k, [CmDiscovery(k) EXCEPT !.item[fullPath] = "check"], << >>)

\* a callback's isDicomFile returned: a DICOM file is pushed on dicomFiles; the
\* last callback to end resolves Promise.all and the call returns
CmChecked(k, fullPath) ==
    /\ cmItem[k][fullPath] = "check"
    /\ LET parent == ParentOf(fullPath)
           st == [CmDiscovery(k) EXCEPT
                     !.item[fullPath] = "done",
                     !.list[parent] = IF isDicomFile(fullPath)
                                      THEN Append(@, fullPath) ELSE @]
       IN  CmContinue(k,
                      IF st.call[parent] = "pending" /\ AllDone(st, parent)
                      THEN CmReturned(st, parent, cmFolders[k]) ELSE st,
                      << >>)

NextCompare ==
    \/ CmStart
    \/ \E k \in 1 .. 2, d \in FolderDirs : CmListed(k, d)
    \/ \E k \in 1 .. 2, e \in FolderEntries : CmStat(k, e)
    \/ \E k \in 1 .. 2, e \in FolderEntries : CmChecked(k, e)

SpecCompare == InitCompare /\ [][NextCompare]_vars

(***************************************************************************)
(* findDuplicatesInFolder.js: asyncPool on its own, with an iteratorFn     *)
(* whose calls complete in any order, fulfilled or rejected                *)
(***************************************************************************)

\* the items an array is made of
Items == { "x", "y" }

\* the longest array
MaxItems == 3

\* the largest poolLimit
MaxPoolLimit == 3

\* the arrays asyncPool is handed
Arrays == UNION { [1 .. n -> Items] : n \in 0 .. MaxItems }

\* what iteratorFn(item) resolves to
IteratorResult(item) == [item |-> item]

\* a test that lets one promise more into executing
PoolFullAbove(exec, limit) == Len(exec) > limit

\* executing.length >= poolLimit
PoolFull(exec, limit) == Len(exec) >= limit

\* executing.splice(executing.indexOf(e), 1)
Splice(exec, e) == SelectSeq(exec, LAMBDA x : x # e)

\* a callback queued by Promise.resolve().then has not run yet: it runs before
\* anything queued after it
Scheduled == \E i \in 1 .. Len(call) : call[i] = "scheduled"

InitPool ==
    /\ poolLimit \in 1 .. MaxPoolLimit
    /\ array \in Arrays
    /\ appc = "loop"
    /\ nextItem = 1
    /\ ret = << >>
    /\ executing = << >>
    /\ call = << >>
    /\ called = << >>
    /\ race = "none"
    /\ poolResult = NULL
    /\ ClassifierIdle
    /\ IndexerIdle
    /\ FinderIdle
    /\ RootsIdle
    /\ FolderIdle
    /\ CompareIdle
    /\ OrthancIdle

\* the loop body for one item: p is created (its callback is queued), pushed
\* on ret; with poolLimit <= array.length, e is created and pushed on
\* executing, and with executing full the loop awaits Promise.race(executing),
\* which rejects at once when executing holds a rejected promise
PoolTake ==
    /\ appc = "loop"
    /\ nextItem <= Len(array)
    /\ call' = Append(call, "scheduled")
    /\ called' = Append(called, 0)
    /\ ret' = Append(ret, nextItem)
    /\ nextItem' = nextItem + 1
    /\ IF poolLimit <= Len(array)
       THEN /\ executing' = Append(executing, nextItem)
            /\ IF PoolFull(executing', poolLimit)
               THEN /\ appc' = "race"
                    /\ race' = IF \E i \in 1 .. Len(executing) :
                                     call[executing[i]] = "rejected"
                               THEN "rejected" ELSE "pending"
               ELSE UNCHANGED <<appc, race>>
       ELSE UNCHANGED <<executing, appc, race>>
    /\ UNCHANGED <<poolLimit, array, poolResult>>
    /\ UNCHANGED <<classVars, indexVars, finderVars, rootVars, folderVars, compareVars, orthancVars>>

\* the loop is over: return Promise.all(ret)
PoolLoopEnd ==
    /\ appc = "loop"
    /\ nextItem > Len(array)
    /\ appc' = "all"
    /\ UNCHANGED <<poolLimit, array, nextItem, ret, executing, call, called, race,
                   poolResult>>
    /\ UNCHANGED <<classVars, indexVars, finderVars, rootVars, folderVars, compareVars, orthancVars>>

\* the callback of p runs, in the order the callbacks were queued, once the
\* loop has given way: iteratorFn(item) is called
PoolCallStarts(i) ==
    /\ appc # "loop"
    /\ call[i] = "scheduled"
    /\ \A j \in 1 .. i - 1 : call[j] # "scheduled"
    /\ call' = [call EXCEPT ![i] = "running"]
    /\ called' = [called EXCEPT ![i] = @ + 1]
    /\ UNCHANGED <<poolLimit, array, appc, nextItem, ret, executing, race, poolResult>>
    /\ UNCHANGED <<classVars, indexVars, finderVars, rootVars, folderVars, compareVars, orthancVars>>

\* a call of iteratorFn fulfils: p fulfils and the callback of e takes e out of
\* executing; a race that awaits e fulfils
PoolCallFulfils(i) ==
    /\ appc # "loop"
    /\ ~Scheduled
    /\ call[i] = "running"
    /\ call' = [call EXCEPT ![i] = "fulfilled"]
    /\ executing' = Splice(executing, i)
    /\ race' = IF race = "pending" /\ \E k \in 1 .. Len(executing) : executing[k] = i
               THEN "fulfilled" ELSE race
    /\ UNCHANGED <<poolLimit, array, appc, nextItem, ret, called, poolResult>>
    /\ UNCHANGED <<classVars, indexVars, finderVars, rootVars, folderVars, compareVars, orthancVars>>

\* a call of iteratorFn rejects: p rejects, and e with it, without leaving
\* executing; a race that awaits e rejects
PoolCallRejects(i) ==
    /\ appc # "loop"
    /\ ~Scheduled
    /\ call[i] = "running"
    /\ call' = [call EXCEPT ![i] = "rejected"]
    /\ race' = IF race = "pending" /\ \E k \in 1 .. Len(executing) : executing[k] = i
               THEN "rejected" ELSE race
    /\ UNCHANGED <<poolLimit, array, appc, nextItem, ret, executing, called, poolResult>>
    /\ UNCHANGED <<classVars, indexVars, finderVars, rootVars, folderVars, compareVars, orthancVars>>

\* await Promise.race(executing) returns and the loop goes on, or throws and
\* the promise of asyncPool rejects
PoolRaceSettled ==
    /\ appc = "race"
    /\ ~Scheduled
    /\ race \in { "fulfilled", "rejected" }
    /\ appc' = IF race = "fulfilled" THEN "loop" ELSE "rejected"
    /\ race' = "none"
    /\ UNCHANGED <<poolLimit, array, nextItem, ret, executing, call, called, poolResult>>
    /\ UNCHANGED <<classVars, indexVars, finderVars, rootVars, folderVars, compareVars, orthancVars>>

\* Promise.all(ret) rejects with the first p that rejects, and fulfils with
\* the values of ret, by position, once every p has fulfilled
PoolAllSettled ==
    /\ appc = "all"
    /\ ~Scheduled
    /\ \/ /\ \E i \in 1 .. Len(ret) : call[ret[i]] = "rejected"
          /\ appc' = "rejected"
          /\ UNCHANGED poolResult
       \/ /\ \A i \in 1 .. Len(ret) : call[ret[i]] = "fulfilled"
          /\ appc' = "resolved"
          /\ poolResult' = [i \in 1 .. Len(ret) |-> IteratorResult(array[ret[i]])]
    /\ UNCHANGED <<poolLimit, array, nextItem, ret, executing, call, called, race>>
    /\ UNCHANGED <<classVars, indexVars, finderVars, rootVars, folderVars, compareVars, orthancVars>>

NextPool ==
    \/ PoolTake
    \/ PoolLoopEnd
    \/ \E i \in 1 .. Len(call) : PoolCallStarts(i)
    \/ \E i \in 1 .. Len(call) : PoolCallFulfils(i)
    \/ \E i \in 1 .. Len(call) : PoolCallRejects(i)
    \/ PoolRaceSettled
    \/ PoolAllSettled

SpecPool == InitPool /\ [][NextPool]_vars

(***************************************************************************)
(* buildHashDatabase.js: run from execErrors = [] on, buildHashDatabase,   *)
(* processOrthancInstances, fetchDicomFile, processDicomFile and the       *)
(* MongoDB store, against an Orthanc server that holds four instances      *)
(*                                                                         *)
(*   o1  parses, SOP instance s1, pixel data 01                            *)
(*   o2  parses, SOP instance s2, pixel data 02                            *)
(*   o3  is no DICOM file: parseDicom throws                               *)
(*   o4  parses, SOP instance s4, no pixel data                            *)
(*                                                                         *)
(* The configuration is valid, both connection tests passed and the        *)
(* database is the MongoDB one.                                            *)
(***************************************************************************)

\* the ids Orthanc knows
OrthancInstanceIds == { "o1", "o2", "o3", "o4" }

\* what GET /instances/<id>/file answers when it answers
OrthancFile(orthancId) ==
    CASE orthancId = "o1" ->
           [ parses |-> TRUE, instanceId |-> "s1", pixelDataElement |-> [ data |-> << 1 >> ] ]
      [] orthancId = "o2" ->
           [ parses |-> TRUE, instanceId |-> "s2", pixelDataElement |-> [ data |-> << 2 >> ] ]
      [] orthancId = "o3" ->
           [ parses |-> FALSE, instanceId |-> NULL, pixelDataElement |-> NULL ]
      [] orthancId = "o4" ->
           [ parses |-> TRUE, instanceId |-> "s4", pixelDataElement |-> NULL ]

\* at most this many instances in Orthanc's answer
MaxInstances == 3

\* databaseBatchWriteSize: 1000 in the program, scaled down so that a run of
\* MaxInstances instances has more than one batch
databaseBatchWriteSize == 2

\* the answers of GET /instances: lists of distinct ids
InstanceLists ==
    { ids \in UNION { [1 .. n -> OrthancInstanceIds] : n \in 0 .. MaxInstances } :
        \A i, j \in 1 .. Len(ids) : i # j => ids[i] # ids[j] }

\* orthancIds of buildHashDatabase: response.data of GET /instances
orthancIds == obInstances.data

\* a JavaScript number, and undefined
Number(n) == [ number |-> n ]
Undefined == [ undefined |-> TRUE ]

\* the ReferenceError of reading a name that no enclosing scope declares
ReferenceError(name) == [ error |-> "ReferenceError", name |-> name ]

\* processDicomFile(dicomData, orthancId) of buildHashDatabase.js: what it returns, the entries it
\* pushes on execErrors and what it throws. instanceId is a const of the try
\* block, so the catch block's instanceId.padStart reads an undeclared name:
\* the push of the catch block is never made and the ReferenceError leaves
\* the function.
processDicomFileOrthanc(dicomData, orthancId) ==
    IF ~ dicomData.parses
    THEN [ value |-> NULL, pushed |-> << >>, thrown |-> ReferenceError("instanceId") ]
    ELSE IF dicomData.pixelDataElement = NULL
    THEN [ value |-> NULL,
           pushed |-> << [ orthancId |-> orthancId, error |-> "No pixel data found" ] >>,
           thrown |-> NULL ]
    ELSE [ value |-> [ orthancId |-> orthancId, instanceId |-> dicomData.instanceId,
                       hash |-> hashPixelData(dicomData.pixelDataElement.data) ],
           pushed |-> << >>,
           thrown |-> NULL ]

\* totalBatches of buildHashDatabase: Math.ceil(orthancIds.length / databaseBatchWriteSize)
TotalBatches(ids) == (Len(ids) + databaseBatchWriteSize - 1) \div databaseBatchWriteSize

\* orthancIds.slice(i * databaseBatchWriteSize, (i + 1) * databaseBatchWriteSize)
Batch(ids, i) ==
    SubSeq(ids, i * databaseBatchWriteSize + 1,
           IF (i + 1) * databaseBatchWriteSize < Len(ids)
           THEN (i + 1) * databaseBatchWriteSize ELSE Len(ids))

\* results.filter(result => result !== null)
NonNull(found) == SelectSeq(found, LAMBDA r : r # NULL)

\* updateOne with upsert: the document of that instanceId is replaced, or the
\* document is added
Upsert(docs, doc) ==
    IF \E k \in 1 .. Len(docs) : docs[k].instanceId = doc.instanceId
    THEN [ k \in 1 .. Len(docs) |->
             IF docs[k].instanceId = doc.instanceId THEN doc ELSE docs[k] ]
    ELSE Append(docs, doc)

RECURSIVE BulkWrite(_, _)
BulkWrite(docs, data) ==
    IF data = << >> THEN docs
    ELSE BulkWrite(Upsert(docs, Head(data)), Tail(data))

\* the end of run: the list of execErrors when there is one, the closing
\* line, process.exit(0)
RunEnds(errs, hashed, log) ==
    log \o (IF errs # << >>
            THEN << [ type |-> "failed-header" ] >>
                 \o [ k \in 1 .. Len(errs) |->
                        [ type |-> "failed", orthancId |-> errs[k].orthancId ] ]
            ELSE << >>)
        \o << [ type |-> "complete", images |-> hashed ] >>

InitOrthanc ==
    /\ isTesting \in BOOLEAN
    /\ obInstances \in { [ data |-> ids ] : ids \in InstanceLists } \cup { NULL }
    /\ obpc = "start"
    /\ obI = 0
    /\ obPos = 0
    /\ results = << >>
    /\ execErrors = << >>
    /\ obRequests = << >>
    /\ obFetchFailed = { }
    /\ obStored = << >>
    /\ obLog = << >>
    /\ totalImagesHashed = Number(0)
    /\ ClassifierIdle
    /\ IndexerIdle
    /\ FinderIdle
    /\ RootsIdle
    /\ FolderIdle
    /\ CompareIdle
    /\ PoolIdle

\* batch i begins: processOrthancInstances asks Orthanc for its first file
ObBatchBegins(i, errs, docs, log) ==
    /\ obI' = i
    /\ obPos' = 1
    /\ results' = << >>
    /\ execErrors' = errs
    /\ obStored' = docs
    /\ obLog' = log
    /\ obRequests' = Append(obRequests, Batch(orthancIds, i)[1])
    /\ obpc' = "fetch"
    /\ UNCHANGED totalImagesHashed

\* buildHashDatabase is over, returned or rejected: run lists execErrors,
\* prints the closing line and exits
ObReturns(hashed, errs, docs, log) ==
    /\ totalImagesHashed' = hashed
    /\ execErrors' = errs
    /\ obStored' = docs
    /\ obLog' = RunEnds(errs, hashed, log)
    /\ obpc' = "exited"
    /\ results' = << >>
    /\ UNCHANGED << obI, obPos, obRequests >>

\* after batch i: the next batch, or return orthancIds.length
ObAfterBatch(i, errs, docs, log) ==
    IF i + 1 < TotalBatches(orthancIds)
    THEN ObBatchBegins(i + 1, errs, docs, log)
    ELSE ObReturns(Number(Len(orthancIds)), errs, docs, log)

\* GET /instances is answered, or fails (fetchOrthancInstances returns null)
ObInstancesFetched ==
    /\ obpc = "start"
    /\ IF obInstances = NULL
       THEN ObReturns(Undefined, execErrors, obStored,
                      << [ type |-> "instances-error" ], [ type |-> "no-instances" ] >>)
       ELSE IF Len(orthancIds) = 0
       THEN ObReturns(Undefined, execErrors, obStored, << [ type |-> "no-instances" ] >>)
       ELSE ObBatchBegins(0, execErrors, obStored,
                          << [ type |-> "start-hashing", images |-> Len(orthancIds),
                               batches |-> TotalBatches(orthancIds) ] >>)
    /\ UNCHANGED << isTesting, obInstances, obFetchFailed >>
    /\ UNCHANGED << classVars, indexVars, finderVars, rootVars, folderVars, compareVars,
                    poolVars >>

\* the loop of processOrthancInstances goes on after one instance: the next
\* file is requested, or the batch is over and is stored (not with -t)
ObInstanceDone(errs, found) ==
    IF obPos < Len(Batch(orthancIds, obI))
    THEN /\ obPos' = obPos + 1
         /\ results' = found
         /\ execErrors' = errs
         /\ obRequests' = Append(obRequests, Batch(orthancIds, obI)[obPos + 1])
         /\ UNCHANGED << obpc, obI, obStored, obLog, totalImagesHashed >>
    ELSE IF isTesting
    THEN ObAfterBatch(obI, errs, obStored, obLog)
    ELSE /\ obpc' = "store"
         /\ results' = found
         /\ execErrors' = errs
         /\ UNCHANGED << obI, obPos, obRequests, obStored, obLog, totalImagesHashed >>

\* GET /instances/<id>/file is answered (ok) or fails. A failure is caught in
\* fetchDicomFile, which pushes its entry and returns null. An answer goes to
\* processDicomFile; what that throws is caught in processOrthancInstances by
\* a catch block that reads the undeclared instanceId as well, so the
\* ReferenceError leaves processOrthancInstances and buildHashDatabase, and
\* run's catch prints it.
ObFileFetched(ok) ==
    /\ obpc = "fetch"
    /\ LET orthancId == Batch(orthancIds, obI)[obPos]
           r == processDicomFileOrthanc(OrthancFile(orthancId), orthancId)
       IN  IF ~ ok
           THEN /\ ObInstanceDone(
                     Append(execErrors,
                            [ orthancId |-> orthancId,
                              error |-> "Error fetching DICOM file" ]),
                     results)
                /\ obFetchFailed' = obFetchFailed \cup { orthancId }
           ELSE /\ IF r.thrown # NULL
                   THEN ObReturns(totalImagesHashed, execErrors, obStored,
                                  Append(obLog, [ type |-> "build-error",
                                                  error |-> r.thrown ]))
                   ELSE ObInstanceDone(execErrors \o r.pushed, Append(results, r.value))
                /\ UNCHANGED obFetchFailed
    /\ UNCHANGED << isTesting, obInstances >>
    /\ UNCHANGED << classVars, indexVars, finderVars, rootVars, folderVars, compareVars,
                    poolVars >>

\* storeInMongoDB for the batch in hand: its documents fit one bulkWrite,
\* which succeeds (ok) or fails and is logged; no bulkWrite without documents
ObStoreDone(ok) ==
    /\ obpc = "store"
    /\ ok \/ NonNull(results) # << >>
    /\ ObAfterBatch(obI, execErrors,
                    IF ok THEN BulkWrite(obStored, NonNull(results)) ELSE obStored,
                    IF ok THEN obLog ELSE Append(obLog, [ type |-> "write-error" ]))
    /\ UNCHANGED << isTesting, obInstances, obFetchFailed >>
    /\ UNCHANGED << classVars, indexVars, finderVars, rootVars, folderVars, compareVars,
                    poolVars >>

NextOrthanc ==
    \/ ObInstancesFetched
    \/ \E ok \in BOOLEAN : ObFileFetched(ok)
    \/ \E ok \in BOOLEAN : ObStoreDone(ok)

SpecOrthanc == InitOrthanc /\ [][NextOrthanc]_vars

(***************************************************************************)
(* The call folders = removeNestedFolders(folders) on its own              *)
(***************************************************************************)

InitRoots ==
    /\ rnArgs \in PathLists
    /\ rnFolders = << >>
    /\ rnpc = "input"
    /\ ClassifierIdle
    /\ IndexerIdle
    /\ FinderIdle
    /\ FolderIdle
    /\ CompareIdle
    /\ PoolIdle
    /\ OrthancIdle

\* folders = removeNestedFolders(folders)
RemoveNested ==
    /\ rnpc = "input"
    /\ rnFolders' = removeNestedFolders(rnArgs)
    /\ rnpc' = "done"
    /\ UNCHANGED <<rnArgs, classVars, indexVars, finderVars, folderVars, compareVars, poolVars, orthancVars>>

NextRoots == RemoveNested

SpecRoots == InitRoots /\ [][NextRoots]_vars

(***************************************************************************)
(* Properties of removeNestedFolders                                       *)
(***************************************************************************)

\* no element occurs at two positions of the sequence
NoRepeats(seq) == \A i, j \in 1 .. Len(seq) : seq[i] = seq[j] => i = j

\* the elements of a sequence
Range(seq) == { seq[i] : i \in 1 .. Len(seq) }

\* child lies below parent in the file system: parent, ended by a separator,
\* is a prefix of child, and child is another path
IsDescendant(child, parent) ==
    /\ child # parent
    /\ StartsWith(child, IF parent[Len(parent)] = Sep THEN parent
                         ELSE parent \o << Sep >>)

\* C14: for every argument list the list removeNestedFolders returns holds no
\* path twice and no path that is a file system descendant of another one in
\* it, also when the file system root is among the arguments.
C14_OutermostSet ==
    rnpc = "done" =>
        /\ NoRepeats(rnFolders)
        /\ \A c, q \in Range(rnFolders) : ~IsDescendant(c, q)

\* C15: a root is dropped exactly when a kept root followed by a separator is
\* a prefix of it, never on a prefix of the bare string: of /a/b and /a/bc both
\* are kept, of /a, /a/b and /a/bc only /a is kept.
C15_DroppedAtSeparatorOnly ==
    LET a   == << Sep, "a" >>
        ab  == << Sep, "a", Sep, "b" >>
        abc == << Sep, "a", Sep, "b", "c" >>
    IN  rnpc = "done" =>
          /\ \A i \in 1 .. Len(rnArgs) :
                PathResolve(rnArgs[i]) \in Range(rnFolders) <=>
                    ~ \E k \in Range(rnFolders) :
                          StartsWith(PathResolve(rnArgs[i]), k \o << Sep >>)
          /\ Range(rnArgs) = { ab, abc } => Range(rnFolders) = { ab, abc }
          /\ Range(rnArgs) = { a, ab, abc } => Range(rnFolders) = { a }

\* /a/bc, /a/b and /a were given, in this order: only /a is returned
C15_Witness ==
    /\ rnpc = "done"
    /\ rnArgs = << << Sep, "a", Sep, "b", "c" >>, << Sep, "a", Sep, "b" >>, << Sep, "a" >> >>
    /\ rnFolders = << << Sep, "a" >> >>

\* the argument list with every path resolved
ResolvedArgs == { PathResolve(rnArgs[i]) : i \in 1 .. Len(rnArgs) }

\* C28: every root removeNestedFolders returns is one of the resolved input
\* roots, and every input root is returned or lies inside a returned root.
C28_RootsCovered ==
    rnpc = "done" =>
        /\ Range(rnFolders) \subseteq ResolvedArgs
        /\ \A r \in ResolvedArgs :
              \/ r \in Range(rnFolders)
              \/ \E k \in Range(rnFolders) : IsDescendant(r, k)

\* /a/b and /a/ were given: /a is returned, the resolved form of an argument,
\* and /a/b lies inside it
C28_Witness ==
    /\ rnpc = "done"
    /\ rnArgs = << << Sep, "a", Sep, "b" >>, << Sep, "a", Sep >> >>
    /\ rnFolders = << << Sep, "a" >> >>

(***************************************************************************)
(* Properties of the classifier                                            *)
(***************************************************************************)

\* the document kind of a SOP class by the classification table: exact match
\* for encapsulated PDF and RT Structure Set, prefix match for SR and waveform
KindOf(sop) ==
    IF sop = PdfUid THEN "EncapsulatedDocument"
    ELSE IF StartsWith(sop, SrPrefix) THEN "StructuredReport"
    ELSE IF sop = RtStructUid THEN "StructuredTherapyPlan"
    ELSE IF StartsWith(sop, WaveformPrefix) THEN "Waveform"
    ELSE "ImageLike"

Present(ds, tag) == tag \in DOMAIN ds.elements /\ ds.elements[tag].length > 0

\* C9: every SOP class that is not exactly the PDF identifier, has not the SR
\* prefix, is not exactly the RT Structure Set identifier and has not the
\* waveform prefix is classified image-like: the result is the digest of the
\* pixel-data element (null when that element is missing or empty).
C9_FallbackIsImageLike ==
    (cpc = "done" /\ KindOf(SopClassOf(dataSet)) = "ImageLike") =>
        digest = IF Present(dataSet, "x7fe00010")
                 THEN [sha256 |-> ByteView(dataSet, dataSet.elements["x7fe00010"])]
                 ELSE NULL

\* the designated payload of a dataset's kind is missing or has zero length
\* (for an RT Structure Set: all three target sequences are)
DesignatedMissing(ds) ==
    LET kind == KindOf(SopClassOf(ds)) IN
    CASE kind = "EncapsulatedDocument"  -> ~Present(ds, "x00420011")
      [] kind = "StructuredReport"      -> ~Present(ds, "x0040a730")
      [] kind = "StructuredTherapyPlan" ->
            \A t \in { "x30060020", "x30060039", "x30060080" } : ~Present(ds, t)
      [] kind = "Waveform"              -> ~Present(ds, "x54000100")
      [] OTHER                          -> ~Present(ds, "x7fe00010")

\* C10: for every document kind, when the designated payload element is missing
\* or has zero length extractRelevantData returns null, and it never returns
\* the digest of an empty byte sequence.
C10_NoPayloadIsNull ==
    cpc = "done" =>
        /\ DesignatedMissing(dataSet) => digest = NULL
        /\ digest # [sha256 |-> << >>]

\* an RT Structure Set whose ROI sequence is present but empty and whose other
\* targets are absent, with pixel data at hand as a possible substitute
C10_Witness ==
    /\ cpc = "done"
    /\ SopClassOf(dataSet) = RtStructUid
    /\ "x30060020" \in DOMAIN dataSet.elements
    /\ dataSet.elements["x30060020"].length = 0
    /\ Present(dataSet, "x7fe00010")
    /\ DesignatedMissing(dataSet)
    /\ digest = NULL

\* the bytes of an element, nothing when it is absent or empty
PayloadOf(ds, tag) ==
    IF Present(ds, tag) THEN ByteView(ds, ds.elements[tag]) ELSE << >>

\* the three RT Structure sequences side by side: ROI, ROI contour, observations
RtConcatenation(ds) ==
    PayloadOf(ds, "x30060020") \o PayloadOf(ds, "x30060039") \o PayloadOf(ds, "x30060080")

\* C11: for an RT Structure Set the digest is the one digest of the
\* concatenation, in the order ROI sequence, ROI-contour sequence,
\* ROI-observations sequence, of the elements present and non-empty; it is null
\* exactly when all three are absent or empty.
C11_RtDigestOfConcatenation ==
    (cpc = "done" /\ SopClassOf(dataSet) = RtStructUid) =>
        /\ digest = IF RtConcatenation(dataSet) = << >> THEN NULL
                    ELSE [sha256 |-> RtConcatenation(dataSet)]
        /\ digest = NULL <=>
              \A t \in { "x30060020", "x30060039", "x30060080" } : ~Present(dataSet, t)

\* an RT Structure Set without ROI sequence whose two other sequences hold
\* different bytes: the digest is that of contour bytes followed by observations
C11_Witness ==
    /\ cpc = "done"
    /\ SopClassOf(dataSet) = RtStructUid
    /\ ~Present(dataSet, "x30060020")
    /\ Present(dataSet, "x30060039")
    /\ Present(dataSet, "x30060080")
    /\ PayloadOf(dataSet, "x30060039") = << 2 >>
    /\ PayloadOf(dataSet, "x30060080") = << 1 >>
    /\ digest = [sha256 |-> << 2, 1 >>]

\* the RT Structure Sets over the same file bytes that hold target elements only
RtDataSets ==
    { [ sopClassUID |-> RtStructUid, elements |-> m, byteArray |-> FileBytes ] :
        m \in UNION { [S -> Elements] :
                        S \in SUBSET { "x30060020", "x30060039", "x30060080" } } }

\* C29: two RT Structure Set datasets receive the same digest only if each of
\* the three target elements has the same bytes in both, an absent element
\* counting as empty.
C29_RtDigestTellsElementsApart ==
    (cpc = "done" /\ SopClassOf(dataSet) = RtStructUid) =>
        \A other \in RtDataSets :
            handleSpecialSOPClass(other, RtStructUid) = digest =>
                \A t \in { "x30060020", "x30060039", "x30060080" } :
                    PayloadOf(other, t) = PayloadOf(dataSet, t)

(***************************************************************************)
(* Properties of the indexer                                               *)
(***************************************************************************)

\* the tasks that were started and have not settled
InFlight == { t \in 1 .. Len(tstate) : ~Settled(t) }

\* C1: the number of per-file tasks started and not yet settled never exceeds
\* CONCURRENCY.
C1_InFlightWithinConcurrency == Cardinality(InFlight) <= CONCURRENCY

\* C2: when the totals are reported and the database is closed, every task
\* that was started has settled.
C2_ReportAfterAllSettled == ixpc = "done" => InFlight = {}

\* processDicom(filePath) raises an error while reading or parsing the file
\* (which its own catch turns into null)
ProcessingRaises(filePath) ==
    LET f == Files[filePath] IN
    /\ f.size <= MaxFileSize
    /\ \/ f.read # "ok"
       \/ f.size >= MinDicomLength /\ f.parse # "ok"

\* C8: an error raised while reading, decoding, classifying or hashing a file
\* yields no hash for it and is appended to the error list: once a task whose
\* processing raised an error has settled, errors holds an entry for its file.
C8_ProcessingErrorsRecorded ==
    \A t \in 1 .. Len(tstate) :
        (Settled(t) /\ ~TaskSkips(started[t], ixDeepMode)
                    /\ ProcessingRaises(started[t])) =>
            /\ started[t] \notin db
            /\ \E i \in 1 .. Len(errors) : errors[i] = started[t]

\* C12: processDicom records no hash for a parsed file whose pixel-data element
\* is missing or has zero length: every file put in the database has pixel data
\* that is present and not empty.
C12_NoHashWithoutPixelData ==
    \A filePath \in db : Present(Files[filePath].dataSet, "x7fe00010")

\* the file is larger than the maximum file size
Oversized(filePath) == Files[filePath].size > 1000000000

\* the tasks whose file is not oversized
SizedTasks == { t \in 1 .. Len(started) : ~Oversized(started[t]) }

\* C22: a file larger than 1,000,000,000 bytes is skipped by processDicom
\* without being read: its task leaves no record in the database, does not
\* raise dicomCount, adds no entry to errors, and the scan goes on to the file
\* listed after it.
C22_OversizedFileSkipped ==
    /\ dicomCount <= Cardinality(SizedTasks)
    /\ \A t \in 1 .. Len(started) :
          Oversized(started[t]) =>
              /\ ~processDicomReadsFile(started[t])
              /\ started[t] \notin db
              /\ \A i \in 1 .. Len(errors) : errors[i] # started[t]
              /\ ixpc = "done" =>
                    \E u \in t + 1 .. Len(started) :
                        started[u] = PathJoin(DirE, << "n", LF >>)

\* a run over /e is done: big.dcm was handed to a task, the file after it was
\* started, only p.dicom was counted and nothing is in errors
C22_Witness ==
    /\ ixpc = "done"
    /\ ixFolders = << DirE >>
    /\ \E t \in 1 .. Len(started) :
          /\ started[t] = PathJoin(DirE, << "b", "i", "g", ".", "d", "c", "m" >>)
          /\ Settled(t)
          /\ ~TaskSkips(started[t], ixDeepMode)
    /\ Len(started) = 3
    /\ dicomCount = 1
    /\ errors = << >>

(***************************************************************************)
(* Properties of the spool-based duplicate finder                          *)
(***************************************************************************)

\* the lines of the spool file
SpoolLines == IF tempFile = NULL THEN << >> ELSE SplitLines(tempFile)

\* C3: for any list of roots (a root given twice, nested roots) every included
\* path is written to the spool exactly once and processed exactly once: while
\* the spool is processed no path occupies two of its lines, and no path is
\* entered twice in the groups of the hash map.
C3_EachPathOnce ==
    fpc = "process" =>
        /\ NoRepeats(SelectSeq(SpoolLines, LAMBDA l : ~IsBlank(l)))
        /\ \A g, h \in 1 .. Len(hashes) :
              /\ NoRepeats(hashes[g].files)
              /\ g # h => \A i \in 1 .. Len(hashes[g].files) :
                             \A j \in 1 .. Len(hashes[h].files) :
                                hashes[g].files[i] # hashes[h].files[j]

\* the bytes the classification table selects in a dataset
SelectedPayload(ds) ==
    LET kind == KindOf(SopClassOf(ds)) IN
    CASE kind = "EncapsulatedDocument"  -> PayloadOf(ds, "x00420011")
      [] kind = "StructuredReport"      -> PayloadOf(ds, "x0040a730")
      [] kind = "StructuredTherapyPlan" -> RtConcatenation(ds)
      [] kind = "Waveform"              -> PayloadOf(ds, "x54000100")
      [] OTHER                          -> PayloadOf(ds, "x7fe00010")

\* the selected payload of every file of the tree
FilePayload == [f \in DOMAIN Files |-> SelectedPayload(Files[f].dataSet)]

\* the paths the second pass has handed to the processing function so far
ProcessedPaths ==
    LET spool == SelectSeq(SpoolLines, LAMBDA l : ~IsBlank(l))
        left  == SelectSeq(lines, LAMBDA l : ~IsBlank(l))
    IN  { spool[i] : i \in 1 .. Len(spool) - Len(left) }

\* the processed files that parse and have a payload
HashableProcessed ==
    { f \in ProcessedPaths \cap DOMAIN Files :
        /\ Files[f].read = "ok" /\ Files[f].parse = "ok"
        /\ FilePayload[f] # << >> }

\* the entries of the hash map that list the path
GroupsOf(filePath) ==
    { g \in 1 .. Len(hashes) :
        \E i \in 1 .. Len(hashes[g].files) : hashes[g].files[i] = filePath }

Written == (IF tempFile = NULL THEN << >> ELSE tempFile) \o wbuf

\* some component of the path below the file system root starts with a dot
HasHiddenComponent(path) ==
    \E i \in 1 .. Len(path) - 1 : path[i] = Sep /\ path[i + 1] = "."

\* C16: with and without -d the spool walker reads no directory whose name
\* starts with a dot and writes no file whose name starts with a dot, at any
\* depth: no directory read and no line of the spool has a hidden component.
C16_HiddenEntriesLeftOut ==
    /\ fpc = "readdir" => ~HasHiddenComponent(fReadTarget)
    /\ fpc \in { "next", "readdir", "finish", "count", "process" } =>
          \A i \in 1 .. Len(SplitLines(Written)) :
              ~HasHiddenComponent(SplitLines(Written)[i])

\* the extension of a file name in lower case is empty, .dcm or .dicom
AcceptedExtension(name) ==
    Extname(ToLowerCase(name)) \in
        { << >>, << ".", "d", "c", "m" >>, << ".", "d", "i", "c", "o", "m" >> }

\* the walker stands before a regular file whose name does not start with a dot
AtVisibleFile ==
    /\ fpc = "next"
    /\ fStack # << >>
    /\ FTopFrame.rest # << >>
    /\ FTopEntry.type = "file"
    /\ Head(FTopEntry.name) # "."

\* C17: a non-hidden regular file the walker reaches is included exactly when
\* -d is given or its extension, in any case, is empty, .dcm or .dicom; an
\* included file adds one to counter.count and one line to the spool, a file
\* left out adds nothing.
C17_IncludedByExtension ==
    [][ (AtVisibleFile /\ fStack' # fStack) =>
          IF deepMode \/ AcceptedExtension(FTopEntry.name)
          THEN /\ counter'.count = counter.count + 1
               /\ Len(SplitLines(Written')) = Len(SplitLines(Written)) + 1
          ELSE /\ counter'.count = counter.count
               /\ Written' = Written ]_vars

\* the paths the second pass has handed to the processing function, in order
ProcessedSeq ==
    LET spool == SelectSeq(SpoolLines, LAMBDA l : ~IsBlank(l))
        left  == SelectSeq(lines, LAMBDA l : ~IsBlank(l))
    IN  SubSeq(spool, 1, Len(spool) - Len(left))

\* reading and parsing the file at the path succeed
Parses(filePath) ==
    /\ filePath \in DOMAIN Files
    /\ Files[filePath].read = "ok"
    /\ Files[filePath].parse = "ok"

\* the file at the path has a digest: it parses and its payload is not empty
Hashable(filePath) ==
    Parses(filePath) /\ FilePayload[filePath] # << >>

\* how many elements of the sequence satisfy the test
CountIn(seq, Test(_)) == Cardinality({ i \in 1 .. Len(seq) : Test(seq[i]) })

NotParses(filePath) == ~Parses(filePath)

NotHashable(filePath) == ~Hashable(filePath)

ParsesUnhashable(filePath) == Parses(filePath) /\ ~Hashable(filePath)

MappedPaths == UNION { Range(hashes[g].files) : g \in 1 .. Len(hashes) }

\* the hash map holds exactly the processed files that have a digest, each
\* under its own digest, no digest under two keys and no key without a path
MapHoldsHashedFiles ==
    /\ MappedPaths = { f \in ProcessedPaths : Hashable(f) }
    /\ \A g \in 1 .. Len(hashes) :
          /\ Len(hashes[g].files) >= 1
          /\ \A f \in Range(hashes[g].files) :
                hashes[g].hash = [sha256 |-> FilePayload[f]]
          /\ \A h \in 1 .. Len(hashes) : hashes[g].hash = hashes[h].hash => g = h

\* the entries of the hash map with two or more paths
LargeEntries == { g \in 1 .. Len(hashes) : Len(hashes[g].files) >= 2 }

\* the sum of the lengths of the sequences of a sequence
RECURSIVE TotalLen(_)
TotalLen(seqs) == IF seqs = << >> THEN 0 ELSE Len(Head(seqs)) + TotalLen(Tail(seqs))

\* the duplicate sets reported are the entries with two or more paths, and the
\* total reported is the sum over them of (size - 1)
ReportIsLargeEntries ==
    /\ Range(output) = { hashes[g].files : g \in LargeEntries }
    /\ Len(output) = Cardinality(LargeEntries)
    /\ totalDuplicates = TotalLen(output) - Len(output)

\* C19 as stated: after all files are processed the hash map holds exactly the
\* files with a digest, and the report lists exactly its entries of two or
\* more paths with the sum of (size - 1) as total, in every mode.
C19_MapAndReport ==
    /\ (fpc = "process" /\ lines = << >>) => MapHoldsHashedFiles
    /\ fpc = "finished" => ReportIsLargeEntries

\* C19 amended: the same without -ch; with -ch the digests are written out one
\* by one, the hash map stays empty and no duplicate set is reported.
C19_MapAndReportUnlessHashMode ==
    /\ (fpc = "process" /\ lines = << >>) =>
          IF communicateHash THEN hashes = << >> ELSE MapHoldsHashedFiles
    /\ fpc = "finished" =>
          IF communicateHash
          THEN hashes = << >> /\ output = << >> /\ totalDuplicates = 0
          ELSE ReportIsLargeEntries

\* a run over /d and /e has reported: a.dcm and b.DCM form the one duplicate
\* set, big.dcm stands alone in its entry and is not reported
C19_Witness ==
    /\ fpc = "finished"
    /\ ~communicateHash
    /\ Len(output) = 1
    /\ Len(output[1]) = 2
    /\ totalDuplicates = 1
    /\ \E g \in 1 .. Len(hashes) : Len(hashes[g].files) = 1

\* C24: with -c every line written to standard output, during discovery,
\* processing and reporting, with or without -f, is a JSON object of type
\* progress, duplicate or summary; no plain-text line is written.
C24_OnlyEventsWithCommunicate ==
    communicate =>
        \A i \in 1 .. Len(stdout) :
            stdout[i].type \in { "progress", "duplicate", "summary" }

\* C27: processFilePaths calls processFn once for every non-blank line of the
\* spool, in spool order, with the indices 0, 1, 2, ... (index is the number of
\* non-blank lines read so far), and the last progress value it reports, the
\* index after the last line, equals the total it announced at the start.
C27_CallsInOrderProgressReachesTotal ==
    fpc = "process" =>
        /\ index = Len(ProcessedSeq)
        /\ \A i \in 1 .. Len(ProcessedSeq) : ~IsBlank(ProcessedSeq[i])
        /\ lines = << >> => index = total

\* C4: discovery and processing never overlap: while the spool is counted or
\* processed no write stream is open and nothing waits to be written, and when
\* the run reports, the total announced before processing equals the number of
\* paths processed.
C4_TwoPhasesTotalExact ==
    /\ fpc \in { "count", "process", "finished" } =>
          stream \in { "none", "closed" } /\ wbuf = << >>
    /\ fpc = "finished" => total = index

\* C5: on every exit path the temp file is gone when the process has exited.
C5_TempFileRemovedAtExit == fpc = "exited" => tempFile = NULL

\* C6: no directory read error aborts the run: the process never ends on the
\* rejection a failed directory read raised.
C6_NoDirectoryErrorAborts ==
    ~ ( /\ fpc = "exited"
        /\ exitCode = 1
        /\ \E i \in 1 .. Len(stderr) : stderr[i].type = "unhandled-rejection" )

\* the directories skipped for a permission error
SkippedDirs == SelectSeq(stderr, LAMBDA e : e.type = "skipping")

\* the number of errors the counters of the run hold
RecordedErrors == IF "errors" \in DOMAIN counter THEN counter.errors ELSE 0

\* C7: a directory whose read fails with a permission error is skipped and an
\* error is recorded in the error count of the run: when the run reports, the
\* count covers every directory that was skipped.
C7_DeniedDirectoryRecorded ==
    fpc = "finished" => RecordedErrors >= Len(SkippedDirs)

\* the run was cancelled from outside: it exited on a signal or on an error of
\* the write stream, not on a rejection of its own
Cancelled ==
    /\ fpc = "exited"
    /\ ~ \E i \in 1 .. Len(stderr) : stderr[i].type = "unhandled-rejection"

\* C21: when every directory read and every file read returns, with data or
\* with an error, a run that is not cancelled eventually finishes enumeration,
\* processes every line of the spool and reaches its final summary.
C21_RunReachesSummary ==
    <>( \/ fpc = "finished" /\ lines = << >> /\ stream \in { "none", "closed" }
        \/ Cancelled )

(***************************************************************************)
(* Properties of run.js                                                    *)
(***************************************************************************)

\* the DICOM files of a folder: the files below it that start as DICOM files
DicomFilesBelow(folder) ==
    { f \in DOMAIN FolderFiles : StartsWith(f, folder \o << Sep >>) /\ isDicomFile(f) }

\* the file has a pixel-data element
HasPixelData(f) == "x7fe00010" \in DOMAIN FolderFiles[f].dataSet.elements

\* the bytes of the pixel-data element of a file
PixelBytes(f) ==
    LET ds == FolderFiles[f].dataSet IN ByteView(ds, ds.elements["x7fe00010"])

\* the lines between line i and the next rule
BlockAfter(i) ==
    LET j == CHOOSE j \in i + 1 .. Len(cmStdout) :
                 /\ cmStdout[j].type = "rule"
                 /\ \A m \in i + 1 .. j - 1 : cmStdout[m].type # "rule"
    IN  SubSeq(cmStdout, i + 1, j - 1)

\* C25: compareFolders reports every DICOM file of folder 1 that has a
\* pixel-data hash exactly once, followed by exactly the files of folder 2
\* whose pixel-data hash equals its own, or by 'No matches found' if and only
\* if no file of folder 2 has that hash.
C25_EveryFileWithItsMatches ==
    cmpc = "reported" =>
        \A f \in DicomFilesBelow(cmFolders[1]) :
            HasPixelData(f) =>
                LET at   == { i \in 1 .. Len(cmStdout) :
                                cmStdout[i] = [type |-> "file", path |-> f] }
                    same == { g \in DicomFilesBelow(cmFolders[2]) :
                                HasPixelData(g) /\ PixelBytes(g) = PixelBytes(f) }
                IN  /\ Cardinality(at) = 1
                    /\ \A i \in at :
                          LET block == BlockAfter(i) IN
                          IF same = {} THEN block = << [type |-> "nomatch"] >>
                          ELSE /\ Len(block) = Cardinality(same) + 1
                               /\ block[1].type = "matches"
                               /\ \A x \in 2 .. Len(block) : block[x].type = "match"
                               /\ { block[x].path : x \in 2 .. Len(block) } = same

(***************************************************************************)
(* Properties of asyncPool                                                 *)
(***************************************************************************)

\* the calls of iteratorFn started and not yet settled
Running == { i \in 1 .. Len(call) : call[i] = "running" }

\* C26: for every poolLimit >= 1 and every array, asyncPool calls iteratorFn
\* at most once for an item and never has more than poolLimit calls started and
\* not yet settled; when its promise resolves, iteratorFn was called exactly
\* once for every item, every call has settled, and the value is the results
\* in the order of the array.
C26_PoolBoundedOrdered ==
    /\ Cardinality(Running) <= poolLimit
    /\ \A i \in 1 .. Len(called) : called[i] <= 1
    /\ appc = "resolved" =>
          /\ Len(called) = Len(array)
          /\ \A i \in 1 .. Len(array) : called[i] = 1
          /\ Running = {}
          /\ poolResult = [i \in 1 .. Len(array) |-> [item |-> array[i]]]

\* a pool of limit 2 over y, x, y has resolved to the three results in this
\* order
C26_Witness ==
    /\ appc = "resolved"
    /\ poolLimit = 2
    /\ array = << "y", "x", "y" >>
    /\ poolResult = << [item |-> "y"], [item |-> "x"], [item |-> "y"] >>

(***************************************************************************)
(* Properties of findDuplicatesInFolder.js                                 *)
(***************************************************************************)

\* the duplicate sets of the run, each as a set of paths
FolderGroupSets ==
    { { fdOutput[g][i] : i \in 1 .. Len(fdOutput[g]) } : g \in 1 .. Len(fdOutput) }

\* the events of one type among those written to standard output
EventsOfType(type) == SelectSeq(fdStdout, LAMBDA e : e.type = type)

\* the sum over the duplicate events of (group size - 1)
RECURSIVE GroupSurplus(_)
GroupSurplus(events) ==
    IF events = << >> THEN 0
    ELSE Len(Head(events).group) - 1 + GroupSurplus(Tail(events))

\* the progress events are as many as the files the pool was handed: the array
\* of the folder's call held that many when it returned, and callbacks still
\* pending then (after a failed stat) can only have pushed more since
OnePerFile(n) ==
    /\ n <= Len(fdList[fdFolder])
    /\ (\A e \in FolderEntries : fdItem[e] # "rejected") => n = Len(fdList[fdFolder])

\* standard output holds: progress events numbered 1 .. total, one for each
\* file handed to the pool; then one duplicate event for each duplicate group;
\* then one summary, the last event, whose totalDuplicates is the sum of
\* (group size - 1) over the duplicate events (0 when there is none)
ProgressDuplicatesSummary ==
    LET n == Len(EventsOfType("progress"))
        k == Len(EventsOfType("duplicate"))
    IN  /\ Len(fdStdout) = n + k + 1
        /\ OnePerFile(n)
        /\ \A i \in 1 .. n :
              fdStdout[i] = [type |-> "progress", current |-> i, total |-> n]
        /\ \A i \in n + 1 .. n + k :
              /\ fdStdout[i].type = "duplicate"
              /\ fdStdout[i].group = fdOutput[i - n]
        /\ k = Len(fdOutput)
        /\ fdStdout[n + k + 1] =
              [ type |-> "summary",
                totalDuplicates |-> GroupSurplus(EventsOfType("duplicate")) ]

C20_SecondRunSameGroups ==
    (fdRun = 2 /\ fdpc = "reported") => FolderGroupSets = fdFirst

(***************************************************************************)
(* Properties of buildHashDatabase.js                                      *)
(***************************************************************************)

\* the entries of execErrors for one instance
ErrorsOf(orthancId) ==
    { k \in 1 .. Len(execErrors) : execErrors[k].orthancId = orthancId }

\* the documents of the database that come from one instance
StoredOf(orthancId) ==
    { k \in 1 .. Len(obStored) : obStored[k].orthancId = orthancId }

\* the instance's file could not be fetched, or was fetched and is no DICOM file
FetchOrParseFailed(orthancId) ==
    \/ orthancId \in obFetchFailed
    \/ /\ \E k \in 1 .. Len(obRequests) : obRequests[k] = orthancId
       /\ ~ OrthancFile(orthancId).parses

\* the instance was fetched, parses and has pixel data
InstanceHashable(orthancId) ==
    /\ orthancId \notin obFetchFailed
    /\ OrthancFile(orthancId).parses
    /\ OrthancFile(orthancId).pixelDataElement # NULL

\* every bulkWrite of the run succeeded
NoWriteError == \A k \in 1 .. Len(obLog) : obLog[k].type # "write-error"

\* C30: when the run over a non-empty instance list has ended, every instance
\* of the list was requested, in order; an instance whose fetch or parse
\* failed has exactly one entry in execErrors and no document; and, without
\* -t and with every write successful, each instance that was fetched, parses
\* and has pixel data has its document in the database.
C30_FailureRecordedRunGoesOn ==
    (obpc = "exited" /\ obInstances # NULL /\ Len(orthancIds) > 0) =>
        /\ obRequests = orthancIds
        /\ \A k \in 1 .. Len(orthancIds) :
              /\ FetchOrParseFailed(orthancIds[k]) =>
                    /\ Cardinality(ErrorsOf(orthancIds[k])) = 1
                    /\ StoredOf(orthancIds[k]) = { }
              /\ (InstanceHashable(orthancIds[k]) /\ ~ isTesting /\ NoWriteError) =>
                    Cardinality(StoredOf(orthancIds[k])) = 1

====
